---- MODULE Spec2Model ----
(***************************************************************************)
(* Comparison core of knhanul/Pdf-Compare.                                 *)
(*                                                                         *)
(*  - compare_with_resync   (src/pdf_text_compare_posid.py)  word aligner   *)
(*  - PDFViewer.normalize_word and the word pipeline of                     *)
(*    extract_text_with_word_info (src/pdf_text_compare_posid.py)           *)
(*  - TextComparator.compare_blocks (src/insurance_compare/                 *)
(*    text_comparator.py)   block matcher and block-level classifier        *)
(*                                                                         *)
(* A Python str is a sequence of one-character strings; a Python list is a  *)
(* sequence.  Python indices are 0-based and are kept 0-based in the state  *)
(* (At and Slice translate them).                                           *)
(***************************************************************************)
EXTENDS Integers, Sequences, FiniteSets, TLC

VARIABLES
    \* ---- word aligner (compare_with_resync) and the word pipeline ----
    raw_left,     \* raw tokens of the left selection (page.get_text("words"))
    raw_right,    \* raw tokens of the right selection
    words_left,   \* normalized words handed to compare_with_resync
    words_right,
    i,            \* left pointer
    j,            \* right pointer
    differences,  \* list of <<type, left_idx, right_idx>>
    pc,           \* "idle" | "extract" | "left_done" | "right_done" | "selected" |
                  \* "warned" | "loop" | "done"
    \* ---- block matcher (TextComparator.compare_blocks) ----
    blocks_a,           \* list of blocks of document A
    blocks_b,           \* list of blocks of document B
    idx,                \* index i of the loop over blocks_a
    matched_b_indices,  \* set of claimed B indices
    results,            \* the results dict under construction
    bpc,                \* "idle" | "match" | "done"
    \* ---- PDFViewer.normalize_word applied to one token ----
    token,              \* the token handed to normalize_word
    normalized,         \* normalize_word(token)
    renormalized,       \* normalize_word(normalized)
    npc,                \* "idle" | "raw" | "once" | "twice"
    \* PDdiff.perform_comparison
    flat_blocks_a,      \* the blocks of document A, all pages in order
    flat_blocks_b,      \* the blocks of document B
    pd_i,               \* the index i of the loop over flat_blocks_a
    pd_matched_b_indices, \* matched_b_indices of perform_comparison
    pd_sync_map,        \* sync_map of perform_comparison
    diff_data_a,        \* {page: [(bbox, color)]} of side A
    diff_data_b,        \* {page: [(bbox, color)]} of side B
    diff_types,         \* the value of diff_type at each matched A index
    ppc,                \* "idle" | "match" | "done"
    \* callers of TextComparator
    diff_results,       \* self.diff_results of each TextComparator instance
    comparator,         \* the instance whose compare_blocks was called last
    returned,           \* what the calls made so far have returned
    calls,              \* number of calls made so far
    \* pdf_text_compare_final_v2.PDFViewer
    pdf_doc,            \* TRUE when a document is loaded (self.pdf_doc)
    zoom,               \* zoom_in minus zoom_out calls: scale = 1.5 * 1.2^zoom
    label_selection,    \* pages whose SelectableLabel holds a selection
    selected_word_info, \* self.selected_word_info
    word_highlights,    \* self.word_highlights: {page: [(bbox, color, word)]}
    last_op,            \* the PDFViewer method that ran last
    ops,                \* number of PDFViewer operations so far
    \* PDFViewer.normalize_korean_number applied to one text
    unit_text,          \* the text handed to normalize_korean_number
    unit_k,             \* number of units the loop of lines 546-562 has done
    unit_result,        \* the local text, at the end the value returned
    word_result,        \* normalize_word(unit_text)
    upc,                \* "idle" | "loop" | "units" | "word"
    \* insurance_compare_gui.MainWindow, its two viewers and its worker
    pdf_path_a,         \* TRUE when self.pdf_path_a is set
    pdf_path_b,         \* TRUE when self.pdf_path_b is set
    comparison_results, \* <<>> for None, <<output>> once a comparison finished
    btn_compare,        \* TRUE when btn_compare is enabled
    running,            \* number of ComparisonWorker threads inside run()
    pending,            \* worker signals queued for the GUI thread
    is_syncing,         \* self.is_syncing
    scroll,             \* value of the vertical scrollbar of each viewer
    stack,              \* the sync_scroll calls in progress, innermost last
    moves,              \* setValue calls of sync_scroll that moved a viewer
                        \* since the last user action
    origin,             \* the user scroll being handled: <<viewer, value>>
    events,             \* number of user actions so far
    page_images,        \* per viewer: TRUE when page_images is not empty
    btn_nav,            \* TRUE when btn_prev_diff and btn_next_diff are enabled
    current_diff_index  \* self.current_diff_index

blockVars == <<blocks_a, blocks_b, idx, matched_b_indices, results, bpc>>

normVars == <<token, normalized, renormalized, npc>>

alignVars == <<raw_left, raw_right, words_left, words_right, i, j, differences, pc>>

pdVars == <<flat_blocks_a, flat_blocks_b, pd_i, pd_matched_b_indices, pd_sync_map,
           diff_data_a, diff_data_b, diff_types, ppc>>

callerVars == <<diff_results, comparator, returned, calls>>

viewerVars == <<pdf_doc, zoom, label_selection, selected_word_info, word_highlights,
               last_op, ops>>

unitVars == <<unit_text, unit_k, unit_result, word_result, upc>>

guiVars == <<pdf_path_a, pdf_path_b, comparison_results, btn_compare, running, pending, is_syncing, scroll, stack, moves, origin, events,
            page_images, btn_nav, current_diff_index>>

\* what compare_with_resync and the word pipeline leave alone
notAlign == <<blockVars, normVars, pdVars, callerVars, viewerVars, unitVars, guiVars>>

\* what compare_blocks leaves alone
notBlocks == <<alignVars, normVars, pdVars, callerVars, viewerVars, unitVars, guiVars>>

\* what normalize_word leaves alone
notNorm == <<alignVars, blockVars, pdVars, callerVars, viewerVars, unitVars, guiVars>>

\* what PDdiff.perform_comparison leaves alone
notPd == <<alignVars, blockVars, normVars, callerVars, viewerVars, unitVars, guiVars>>

\* what the PDFViewer of pdf_text_compare_final_v2 leaves alone
notViewer == <<alignVars, blockVars, normVars, pdVars, callerVars, unitVars, guiVars>>

\* what normalize_korean_number applied to one text leaves alone
notUnits == <<alignVars, blockVars, normVars, pdVars, callerVars, viewerVars, guiVars>>

\* what the main window of insurance_compare_gui leaves alone
notGui == <<alignVars, blockVars, normVars, pdVars, callerVars, viewerVars, unitVars>>

vars == <<alignVars, blockVars, normVars, pdVars, callerVars, viewerVars, unitVars, guiVars>>

-----------------------------------------------------------------------------
(* Bounds of the model *)

\* longest word list handed to the aligner in SpecAlign
MaxWords == 4

\* longest block list of either document in SpecBlocks
MaxBlocks == 2

\* longest token handed to normalize_word in SpecNormalize
MaxTokenLen == 3

\* longest list of raw tokens of one selection in SpecPipeline
MaxTokens == 2

-----------------------------------------------------------------------------
(* Python helpers *)

\* Python None in an index position of a difference tuple
None == -1

Min(a, b) == IF a < b THEN a ELSE b

\* s[k] with a 0-based index
At(s, k) == s[k + 1]

\* s[a:b] with 0-based, end-exclusive indices (a <= b <= len(s))
Slice(s, a, b) == SubSeq(s, a + 1, b)

\* range(a, b) as the sequence a, a+1, ..., b-1
Range(a, b) == [n \in 1..(IF b > a THEN b - a ELSE 0) |-> a + n - 1]

\* ''.join(ws)
RECURSIVE Join(_)
Join(ws) == IF ws = <<>> THEN <<>> ELSE Head(ws) \o Join(Tail(ws))

\* all lists over S of length at most n
SeqsUpTo(S, n) == UNION { [1..m -> S] : m \in 0..n }

\* smallest element of a non-empty set of integers
SetMin(S) == CHOOSE x \in S : \A y \in S : x <= y

-----------------------------------------------------------------------------
(* Characters and the regular expressions of the normalizers.              *)
(* A Hangul syllable is written by its romanisation: "man" is U+B9CC,      *)
(* "eok" U+C5B5, "jo" U+C870, "won" U+C6D0, "geum" U+AE08, "aek" U+C561.   *)

LowerLetters == {"a", "b", "c", "k", "o", "p", "q", "r", "x", "y", "z"}

UpperLetters == {"A", "B", "O"}

Digits == {"0", "1", "2"}

Hangul == {"man", "eok", "jo", "won", "geum", "aek"}

\* characters matched by \s
SpaceChars == {" "}

\* characters matched by \w or by the class of Hangul syllables
WordChars == LowerLetters \cup UpperLetters \cup Digits \cup Hangul \cup {"_"}

\* str.lower() on one character
LowerChar(c) ==
    CASE c = "A" -> "a"
      [] c = "B" -> "b"
      [] c = "O" -> "o"
      [] OTHER -> c

\* str.lower()
Lower(s) == [n \in 1..Len(s) |-> LowerChar(s[n])]

\* re.sub(r'[^\w\s가-힣]', '', s)
KeepWordOrSpace(c) == c \in WordChars \/ c \in SpaceChars

StripPunct(s) == SelectSeq(s, KeepWordOrSpace)

\* re.sub(r'\s+', ' ', s): every maximal run of whitespace becomes one space
RECURSIVE CollapseSpaces(_)
CollapseSpaces(s) ==
    IF s = <<>> THEN <<>>
    ELSE IF Head(s) \in SpaceChars
         THEN IF Len(s) >= 2 /\ s[2] \in SpaceChars
              THEN CollapseSpaces(Tail(s))
              ELSE <<" ">> \o CollapseSpaces(Tail(s))
         ELSE <<Head(s)>> \o CollapseSpaces(Tail(s))

\* str.lstrip() and str.rstrip()
RECURSIVE LStrip(_)
LStrip(s) == IF s # <<>> /\ Head(s) \in SpaceChars THEN LStrip(Tail(s)) ELSE s

RECURSIVE RStrip(_)
RStrip(s) ==
    IF s # <<>> /\ s[Len(s)] \in SpaceChars
    THEN RStrip(SubSeq(s, 1, Len(s) - 1))
    ELSE s

\* str.strip()
Strip(s) == LStrip(RStrip(s))

-----------------------------------------------------------------------------
(* PDFViewer: is_meaningless_word, normalize_korean_number, split_by_comma, *)
(* normalize_word                                                           *)

\* sub in s, for Python strings
Contains(sub, s) ==
    \E k \in 1..(Len(s) - Len(sub) + 1) : SubSeq(s, k, k + Len(sub) - 1) = sub

\* s.replace(old, new): every occurrence, left to right, old not empty
RECURSIVE ReplaceAll(_, _, _)
ReplaceAll(s, old, new) ==
    IF Len(s) < Len(old) THEN s
    ELSE IF SubSeq(s, 1, Len(old)) = old
         THEN new \o ReplaceAll(SubSeq(s, Len(old) + 1, Len(s)), old, new)
         ELSE <<Head(s)>> \o ReplaceAll(Tail(s), old, new)

\* url_patterns (line 495)
url_patterns ==
    { <<"h", "t", "t", "p">>, <<"h", "t", "t", "p", "s">>, <<"w", "w", "w", ".">>,
      <<".", "c", "o", "m">>, <<".", "n", "e", "t">>, <<".", "o", "r", "g">>,
      <<".", "g", "o", ".", "k", "r">>, <<".", "k", "r">>,
      <<"f", "t", "p", ":", "/", "/">> }

\* bullet_points (lines 501-511), the entries over this model's characters;
\* "bullet" stands for the glyphs of the list (U+2022 and the others)
bullet_points == { <<"o">>, <<"O">>, <<"-">>, <<"bullet">> }

\* str.isalnum() on one character
IsAlnum(c) == c \in LowerLetters \cup UpperLetters \cup Digits \cup Hangul

\* PDFViewer.is_korean
is_korean(char) == char \in Hangul

\* str.isdigit()
IsDigitStr(s) == s # <<>> /\ \A n \in 1..Len(s) : s[n] \in Digits

\* PDFViewer.is_meaningless_word
is_meaningless_word(word) ==
    \/ \E pattern \in url_patterns : Contains(pattern, Lower(word))
    \/ Strip(word) \in bullet_points
    \/ /\ Len(Strip(word)) = 1
       /\ ~(IsAlnum(Strip(word)[1]) \/ is_korean(Strip(word)[1]))
    \/ /\ IsDigitStr(Strip(word))
       /\ Len(Strip(word)) <= 2

\* characters of the class [0-9,]
NumChars == Digits \cup {","}

\* end of the maximal run of [0-9,] that starts at position s
RECURSIVE RunEnd(_, _)
RunEnd(text, s) ==
    IF s < Len(text) /\ text[s + 1] \in NumChars THEN RunEnd(text, s + 1) ELSE s

\* starts of the matches of ([0-9,]+)unit; re.search returns the leftmost
MatchStarts(text, unit) ==
    { s \in 1..Len(text) :
        /\ text[s] \in NumChars
        /\ RunEnd(text, s) < Len(text)
        /\ text[RunEnd(text, s) + 1] = unit }

\* number_str.replace(',', '')
RemoveCommas(s) == SelectSeq(s, LAMBDA c : c # ",")

\* str(int(digits)) for a non-empty string of digits: no leading zeros
RECURSIVE IntStr(_)
IntStr(digits) ==
    IF Len(digits) > 1 /\ Head(digits) = "0" THEN IntStr(Tail(digits)) ELSE digits

\* str(number * 10^zeros) for number given as str(number); Python integers
\* are unbounded, so the product is formed on the decimal digits
TimesPowerOfTen(number, zeros) ==
    IF number = <<"0">> THEN number ELSE number \o [n \in 1..zeros |-> "0"]

\* units (lines 539-543) in iteration order, each multiplier 10^zeros
units == << [unit |-> "jo", zeros |-> 12],
            [unit |-> "eok", zeros |-> 8],
            [unit |-> "man", zeros |-> 4] >>

\* the loop body without its try/except: the ValueError of int('') ends
\* normalize_korean_number, and the token is lost
ConvertUnit_Aborts(text, u) ==
    IF ~Contains(<<u.unit>>, text) THEN text
    ELSE IF MatchStarts(text, u.unit) = {} THEN text
    ELSE LET s == SetMin(MatchStarts(text, u.unit))
             e == RunEnd(text, s)
             number_str == SubSeq(text, s, e)
             digits == RemoveCommas(number_str)
         IN  IF digits = <<>>
             THEN <<>>
             ELSE ReplaceAll(text, SubSeq(text, s, e + 1),
                             TimesPowerOfTen(IntStr(digits), u.zeros))

\* one iteration of the loop of lines 546-562
ConvertUnit(text, u) ==
    IF ~Contains(<<u.unit>>, text) THEN text
    ELSE IF MatchStarts(text, u.unit) = {} THEN text
    ELSE LET s == SetMin(MatchStarts(text, u.unit))
             e == RunEnd(text, s)
             number_str == SubSeq(text, s, e)
             digits == RemoveCommas(number_str)
         IN  IF digits = <<>>
             THEN text    \* int('') raises ValueError: except, pass
             ELSE ReplaceAll(text, SubSeq(text, s, e + 1),
                             TimesPowerOfTen(IntStr(digits), u.zeros))

\* PDFViewer.normalize_korean_number
normalize_korean_number(text) ==
    RemoveCommas(ConvertUnit(ConvertUnit(ConvertUnit(text, units[1]), units[2]), units[3]))

\* word.split(',')
RECURSIVE SplitOnComma(_, _)
SplitOnComma(s, current) ==
    IF s = <<>> THEN <<current>>
    ELSE IF Head(s) = ","
         THEN <<current>> \o SplitOnComma(Tail(s), <<>>)
         ELSE SplitOnComma(Tail(s), Append(current, Head(s)))

\* the parts stripped, the empty ones dropped (lines 579-583)
RECURSIVE StripParts(_)
StripParts(parts) ==
    IF parts = <<>> THEN <<>>
    ELSE IF Strip(Head(parts)) # <<>>
         THEN <<Strip(Head(parts))>> \o StripParts(Tail(parts))
         ELSE StripParts(Tail(parts))

\* PDFViewer.split_by_comma
split_by_comma(word) ==
    IF StripParts(SplitOnComma(word, <<>>)) = <<>>
    THEN <<word>>
    ELSE StripParts(SplitOnComma(word, <<>>))

\* PDFViewer.normalize_word
normalize_word(word) ==
    IF is_meaningless_word(word) THEN <<>>
    ELSE Strip(Lower(CollapseSpaces(StripPunct(normalize_korean_number(word)))))

\* the loop of lines 661-672: the non-empty normalized sub-words of one token
RECURSIVE NormalizedOf(_)
NormalizedOf(sub_words) ==
    IF sub_words = <<>> THEN <<>>
    ELSE IF normalize_word(Head(sub_words)) # <<>>
         THEN <<normalize_word(Head(sub_words))>> \o NormalizedOf(Tail(sub_words))
         ELSE NormalizedOf(Tail(sub_words))

\* the loop of lines 655-672: the 'normalized' entries of selected_word_info
RECURSIVE SelectedWords(_)
SelectedWords(sorted_words) ==
    IF sorted_words = <<>> THEN <<>>
    ELSE NormalizedOf(split_by_comma(Head(sorted_words)))
         \o SelectedWords(Tail(sorted_words))

-----------------------------------------------------------------------------
(* TextComparator: normalize_text, tokenize_words, SequenceMatcher.ratio *)

\* TextComparator.normalize_text
normalize_text(text) == Lower(Strip(StripPunct(CollapseSpaces(text))))

\* the loop of tokenize_words over an already collapsed and stripped text:
\* returns the words followed by the current word
RECURSIVE SplitWords(_, _, _)
SplitWords(s, words, current_word) ==
    IF s = <<>>
    THEN IF current_word # <<>> THEN Append(words, current_word) ELSE words
    ELSE IF Head(s) \in SpaceChars
         THEN IF current_word # <<>>
              THEN SplitWords(Tail(s), Append(words, current_word), <<>>)
              ELSE SplitWords(Tail(s), words, <<>>)
         ELSE SplitWords(Tail(s), words, Append(current_word, Head(s)))

\* TextComparator.tokenize_words
tokenize_words(text) == SplitWords(Strip(CollapseSpaces(text)), <<>>, <<>>)

\* difflib find_longest_match over whole strings: <<start_a, start_b, size>>
\* (0-based) of the longest common block, the earliest in a and then in b
\* among the longest; size 0 when there is none
CommonBlocks(a, b) ==
    { m \in (0..(Len(a) - 1)) \X (0..(Len(b) - 1)) \X (1..Min(Len(a), Len(b))) :
        /\ m[1] + m[3] <= Len(a)
        /\ m[2] + m[3] <= Len(b)
        /\ Slice(a, m[1], m[1] + m[3]) = Slice(b, m[2], m[2] + m[3]) }

LongestMatch(a, b) ==
    LET blocks == CommonBlocks(a, b)
    IN  IF blocks = {} THEN <<0, 0, 0>>
        ELSE CHOOSE m \in blocks :
               \A n \in blocks :
                  \/ m[3] > n[3]
                  \/ m[3] = n[3] /\ m[1] < n[1]
                  \/ m[3] = n[3] /\ m[1] = n[1] /\ m[2] <= n[2]

\* difflib get_matching_blocks: total size of the matching blocks, found by
\* splitting around the longest match and recursing on both sides
RECURSIVE MatchingChars(_, _)
MatchingChars(a, b) ==
    LET m == LongestMatch(a, b)
    IN  IF m[3] = 0 THEN 0
        ELSE m[3]
             + MatchingChars(Slice(a, 0, m[1]), Slice(b, 0, m[2]))
             + MatchingChars(Slice(a, m[1] + m[3], Len(a)),
                             Slice(b, m[2] + m[3], Len(b)))

\* SequenceMatcher(None, a, b).ratio() = 2.0 * matches / (len(a) + len(b)),
\* as the fraction <<numerator, denominator>>; a and b are not both empty
Ratio(a, b) == <<2 * MatchingChars(a, b), Len(a) + Len(b)>>

\* Scores are fractions <<n, d>> with d > 0.  For the texts of this model
\* (combined length below 20) the float comparisons of the code order the
\* scores exactly as these fractions do.
FracAdd(x, y) == <<x[1] * y[2] + y[1] * x[2], x[2] * y[2]>>

FracGt(x, y) == x[1] * y[2] > y[1] * x[2]

FracGe(x, y) == x[1] * y[2] >= y[1] * x[2]

\* SIMILARITY_THRESHOLD = 0.6
SIMILARITY_THRESHOLD == <<6, 10>>

\* the block texts of the model's documents
Txt_ab == <<"a", "b">>

Txt_ac == <<"a", "c">>

Txt_ab_c == <<"a", "b", " ", "c">>

Txt_AB == <<"A", "B">>

Txt_dot == <<".">>

Txt_xy == <<"x", "y">>

Txt_pq == <<"p", "q">>

Txt_z == <<"z">>

BlockTexts == {Txt_ab, Txt_ac, Txt_ab_c, Txt_AB, Txt_dot, Txt_xy, Txt_pq, Txt_z}

\* normalize_text, tokenize_words and ratio() of the block texts, tabulated
\* once per text (pair) instead of evaluated at every use (f @@ <<>> is f,
\* held as a table)
NormOf == [t \in BlockTexts |-> normalize_text(t)] @@ <<>>

WordsOf == [t \in BlockTexts |-> tokenize_words(t)] @@ <<>>

RatioOf ==
    [p \in BlockTexts \X BlockTexts |->
        IF NormOf[p[1]] = <<>> \/ NormOf[p[2]] = <<>> THEN <<0, 1>>
        ELSE Ratio(NormOf[p[1]], NormOf[p[2]])] @@ <<>>

-----------------------------------------------------------------------------
(* compare_with_resync: one action per loop iteration, one per branch *)

\* default value of the lookahead parameter
lookahead == 5

\* the merge-check joins at most this many words
MergeLimit == 5

\* the loop at lines 194-209 without its limit of five words
\* (range(1, len(words_left) - i))
MergeLeftKs_NoLimit ==
    { k \in 1..(Len(words_left) - i - 1) :
        Join(Slice(words_left, i, i + k + 1)) = At(words_right, j) }

\* k of the first successful merge on the left side (loop at lines 194-209)
MergeLeftKs == { k \in 1..(Min(MergeLimit, Len(words_left) - i) - 1) :
                   Join(Slice(words_left, i, i + k + 1)) = At(words_right, j) }

\* k of the first successful merge on the right side (loop at lines 213-228)
MergeRightKs == { k \in 1..(Min(MergeLimit, Len(words_right) - j) - 1) :
                    Join(Slice(words_right, j, j + k + 1)) = At(words_left, i) }

\* the merge-check as a whole: which side, if any, synchronises
MergedLeft == /\ Len(At(words_left, i)) < Len(At(words_right, j))
              /\ MergeLeftKs # {}

MergedRight == /\ ~(Len(At(words_left, i)) < Len(At(words_right, j)))
               /\ Len(At(words_right, j)) < Len(At(words_left, i))
               /\ MergeRightKs # {}

\* ks of the delete-lookahead (loop at lines 234-242)
DeleteKs == { k \in 1..(Min(lookahead + 1, Len(words_left) - i) - 1) :
                At(words_left, i + k) = At(words_right, j) }

\* the insert-lookahead with the right word compared to the words after it
\* (words_right[j] in place of words_left[i] at line 249)
InsertKs_WrongSide ==
    { k \in 1..(Min(lookahead + 1, Len(words_right) - j) - 1) :
        At(words_right, j) = At(words_right, j + k) }

\* ks of the insert-lookahead (loop at lines 248-256)
InsertKs == { k \in 1..(Min(lookahead + 1, Len(words_right) - j) - 1) :
                At(words_left, i) = At(words_right, j + k) }

\* pairs of the joint lookahead (loops at lines 265-271)
JointPairs == { p \in (1..(Min(lookahead + 1, Len(words_left) - i) - 1))
                      \X (1..(Min(lookahead + 1, Len(words_right) - j) - 1)) :
                  At(words_left, i + p[1]) = At(words_right, j + p[2]) }

\* best_match with 'distance > best_distance' at line 269, starting from 0:
\* the pair of maximal k1 + k2 is kept
BestMatch_Farthest ==
    CHOOSE p \in JointPairs :
        \A q \in JointPairs :
            \/ p[1] + p[2] > q[1] + q[2]
            \/ /\ p[1] + p[2] = q[1] + q[2]
               /\ p[1] <= q[1]

\* best_match: the first pair, in k1-major then k2 order, of minimal k1 + k2
\* (distance < best_distance is strict, so an earlier pair is kept on a tie)
BestMatch ==
    CHOOSE p \in JointPairs :
        \A q \in JointPairs :
            \/ p[1] + p[2] < q[1] + q[2]
            \/ /\ p[1] + p[2] = q[1] + q[2]
               /\ p[1] <= q[1]

\* both pointers inside, the words differ (the else branch at line 184)
Mismatch == /\ pc = "loop"
            /\ i < Len(words_left)
            /\ j < Len(words_right)
            /\ At(words_left, i) # At(words_right, j)

\* words_left[a..b-1] as delete operations
Deletes(a, b) == [n \in 1..(b - a) |-> <<"delete", a + n - 1, None>>]

\* words_right[a..b-1] as insert operations
Inserts(a, b) == [n \in 1..(b - a) |-> <<"insert", None, a + n - 1>>]

\* lines 162-165 and 291: the loop ends, the function returns
Finish ==
    /\ pc = "loop"
    /\ i >= Len(words_left)
    /\ j >= Len(words_right)
    /\ pc' = "done"
    /\ UNCHANGED <<raw_left, raw_right, words_left, words_right, i, j, differences>>
    /\ UNCHANGED notAlign

\* the left remainder dropped after one delete (i = len(words_left) in
\* place of i += 1 at line 170)
DrainLeft_SkipsRest ==
    /\ pc = "loop"
    /\ i < Len(words_left)
    /\ j >= Len(words_right)
    /\ differences' = Append(differences, <<"delete", i, None>>)
    /\ i' = Len(words_left)
    /\ UNCHANGED <<raw_left, raw_right, words_left, words_right, j, pc>>
    /\ UNCHANGED notAlign

\* lines 167-171: only the left side remains
DrainLeft ==
    /\ pc = "loop"
    /\ i < Len(words_left)
    /\ j >= Len(words_right)
    /\ differences' = Append(differences, <<"delete", i, None>>)
    /\ i' = i + 1
    /\ UNCHANGED <<raw_left, raw_right, words_left, words_right, j, pc>>
    /\ UNCHANGED notAlign

\* lines 173-177: only the right side remains
DrainRight ==
    /\ pc = "loop"
    /\ i >= Len(words_left)
    /\ j < Len(words_right)
    /\ differences' = Append(differences, <<"insert", None, j>>)
    /\ j' = j + 1
    /\ UNCHANGED <<raw_left, raw_right, words_left, words_right, i, pc>>
    /\ UNCHANGED notAlign

\* the match branch without the right pointer's advance (line 183 dropped)
Match_NoRightAdvance ==
    /\ pc = "loop"
    /\ i < Len(words_left)
    /\ j < Len(words_right)
    /\ At(words_left, i) = At(words_right, j)
    /\ i' = i + 1
    /\ UNCHANGED <<raw_left, raw_right, words_left, words_right, j, differences, pc>>
    /\ UNCHANGED notAlign

\* lines 180-183: the current words are equal
Match ==
    /\ pc = "loop"
    /\ i < Len(words_left)
    /\ j < Len(words_right)
    /\ At(words_left, i) = At(words_right, j)
    /\ i' = i + 1
    /\ j' = j + 1
    /\ UNCHANGED <<raw_left, raw_right, words_left, words_right, differences, pc>>
    /\ UNCHANGED notAlign

\* the merge on the left as it was before the fix noted at lines 199-203:
\* the joined words are recorded as deleted
MergeLeft_RecordsDeletes ==
    /\ Mismatch
    /\ MergedLeft
    /\ differences' = differences \o Deletes(i, i + SetMin(MergeLeftKs))
    /\ i' = i + SetMin(MergeLeftKs) + 1
    /\ j' = j + 1
    /\ UNCHANGED <<raw_left, raw_right, words_left, words_right, pc>>
    /\ UNCHANGED notAlign

\* lines 193-209: k+1 left words join to the right word; nothing is recorded
MergeLeft ==
    /\ Mismatch
    /\ MergedLeft
    /\ i' = i + SetMin(MergeLeftKs) + 1
    /\ j' = j + 1
    /\ UNCHANGED <<raw_left, raw_right, words_left, words_right, differences, pc>>
    /\ UNCHANGED notAlign

\* lines 212-228: k+1 right words join to the left word; nothing is recorded
MergeRight ==
    /\ Mismatch
    /\ MergedRight
    /\ i' = i + 1
    /\ j' = j + SetMin(MergeRightKs) + 1
    /\ UNCHANGED <<raw_left, raw_right, words_left, words_right, differences, pc>>
    /\ UNCHANGED notAlign

\* the delete-lookahead taking the farthest occurrence of the right word
\* instead of the first (no break at line 242)
DeleteLookahead_LargestK ==
    /\ Mismatch
    /\ ~MergedLeft /\ ~MergedRight
    /\ DeleteKs # {}
    /\ LET k == CHOOSE x \in DeleteKs : \A y \in DeleteKs : x >= y
       IN  /\ differences' = differences \o Deletes(i, i + k)
           /\ i' = i + k
    /\ UNCHANGED <<raw_left, raw_right, words_left, words_right, j, pc>>
    /\ UNCHANGED notAlign

\* lines 233-245: the right word is found k words ahead on the left
DeleteLookahead ==
    /\ Mismatch
    /\ ~MergedLeft /\ ~MergedRight
    /\ DeleteKs # {}
    /\ LET k == SetMin(DeleteKs)
       IN  /\ differences' = differences \o Deletes(i, i + k)
           /\ i' = i + k
    /\ UNCHANGED <<raw_left, raw_right, words_left, words_right, j, pc>>
    /\ UNCHANGED notAlign

\* the insert-lookahead skipping the right words without recording them
\* (lines 251-252 dropped)
InsertLookahead_RecordsNothing ==
    /\ Mismatch
    /\ ~MergedLeft /\ ~MergedRight
    /\ DeleteKs = {}
    /\ InsertKs # {}
    /\ j' = j + SetMin(InsertKs)
    /\ UNCHANGED <<raw_left, raw_right, words_left, words_right, i, differences, pc>>
    /\ UNCHANGED notAlign

\* lines 247-259: the left word is found k words ahead on the right
InsertLookahead ==
    /\ Mismatch
    /\ ~MergedLeft /\ ~MergedRight
    /\ DeleteKs = {}
    /\ InsertKs # {}
    /\ LET k == SetMin(InsertKs)
       IN  /\ differences' = differences \o Inserts(j, j + k)
           /\ j' = j + k
    /\ UNCHANGED <<raw_left, raw_right, words_left, words_right, i, pc>>
    /\ UNCHANGED notAlign

\* lines 261-284: both sides skip to the closest common word
JointLookahead ==
    /\ Mismatch
    /\ ~MergedLeft /\ ~MergedRight
    /\ DeleteKs = {}
    /\ InsertKs = {}
    /\ JointPairs # {}
    /\ LET k1 == BestMatch[1]
           k2 == BestMatch[2]
       IN  /\ differences' = differences \o Deletes(i, i + k1) \o Inserts(j, j + k2)
           /\ i' = i + k1
           /\ j' = j + k2
    /\ UNCHANGED <<raw_left, raw_right, words_left, words_right, pc>>
    /\ UNCHANGED notAlign

\* the replace advancing the left pointer only (line 289 dropped)
Replace_KeepsRight ==
    /\ Mismatch
    /\ ~MergedLeft /\ ~MergedRight
    /\ DeleteKs = {}
    /\ InsertKs = {}
    /\ JointPairs = {}
    /\ differences' = Append(differences, <<"replace", i, j>>)
    /\ i' = i + 1
    /\ UNCHANGED <<raw_left, raw_right, words_left, words_right, j, pc>>
    /\ UNCHANGED notAlign

\* lines 286-289: no resynchronisation point, a single replace
Replace ==
    /\ Mismatch
    /\ ~MergedLeft /\ ~MergedRight
    /\ DeleteKs = {}
    /\ InsertKs = {}
    /\ JointPairs = {}
    /\ differences' = Append(differences, <<"replace", i, j>>)
    /\ i' = i + 1
    /\ j' = j + 1
    /\ UNCHANGED <<raw_left, raw_right, words_left, words_right, pc>>
    /\ UNCHANGED notAlign

AlignStep ==
    \/ Finish
    \/ DrainLeft
    \/ DrainRight
    \/ Match
    \/ MergeLeft
    \/ MergeRight
    \/ DeleteLookahead
    \/ InsertLookahead
    \/ JointLookahead
    \/ Replace

-----------------------------------------------------------------------------
(* TextComparator.find_best_match and compare_word_level *)

\* the None returned by find_best_match
NoMatch == <<>>

\* type_bonus (line 92): 0.1 when the section types are equal, else 0
type_bonus(target_block, block) ==
    IF target_block.section_type = block.section_type THEN <<1, 10>> ELSE <<0, 1>>

\* score (line 94)
Score(target_block, block) ==
    FracAdd(RatioOf[<<target_block.text, block.text>>],
            type_bonus(target_block, block))

\* the loop of lines 86-98 with 'score >= best_score' at line 96: of equal
\* scores the last one stays
RECURSIVE BestFrom_LastWins(_, _, _, _)
BestFrom_LastWins(target_block, source_blocks, k, best) ==
    IF k >= Len(source_blocks) THEN best
    ELSE LET block == At(source_blocks, k)
         IN  IF NormOf[block.text] = <<>>
             THEN BestFrom_LastWins(target_block, source_blocks, k + 1, best)
             ELSE IF FracGe(Score(target_block, block), best.score)
                  THEN BestFrom_LastWins(target_block, source_blocks, k + 1,
                                [score |-> Score(target_block, block), index |-> k])
                  ELSE BestFrom_LastWins(target_block, source_blocks, k + 1, best)

\* the loop of lines 86-98 from index k on; best is [score, index]
RECURSIVE BestFrom(_, _, _, _)
BestFrom(target_block, source_blocks, k, best) ==
    IF k >= Len(source_blocks) THEN best
    ELSE LET block == At(source_blocks, k)
         IN  IF NormOf[block.text] = <<>>
             THEN BestFrom(target_block, source_blocks, k + 1, best)
             ELSE IF FracGt(Score(target_block, block), best.score)
                  THEN BestFrom(target_block, source_blocks, k + 1,
                                [score |-> Score(target_block, block), index |-> k])
                  ELSE BestFrom(target_block, source_blocks, k + 1, best)

\* find_best_match returning its best candidate whatever the score (the test
\* of line 100 dropped)
find_best_match_NoThreshold(target_block, source_blocks) ==
    IF NormOf[target_block.text] = <<>> THEN NoMatch
    ELSE LET best == BestFrom(target_block, source_blocks, 0,
                              [score |-> <<-1, 1>>, index |-> -1])
         IN  IF best.index >= 0 THEN <<best.index, best.score>> ELSE NoMatch

\* TextComparator.find_best_match: <<best_index, best_score>> or NoMatch
find_best_match(target_block, source_blocks) ==
    IF NormOf[target_block.text] = <<>> THEN NoMatch
    ELSE LET best == BestFrom(target_block, source_blocks, 0,
                              [score |-> <<-1, 1>>, index |-> -1])
         IN  IF FracGe(best.score, SIMILARITY_THRESHOLD)
             THEN <<best.index, best.score>>
             ELSE NoMatch

\* compare_word_level on the normalized texts instead of the raw words
compare_word_level_Normalized(text_a, text_b) ==
    IF NormOf[text_a] = NormOf[text_b] THEN "same" ELSE "modified"

\* TextComparator.compare_word_level, its 'type'.  When the word lists differ
\* Differ.compare yields at least one '+ ' or '- ' line, so the type is
\* 'modified'; the added and deleted word lists only feed the tooltip text.
compare_word_level(text_a, text_b) ==
    IF WordsOf[text_a] = WordsOf[text_b] THEN "same" ELSE "modified"

-----------------------------------------------------------------------------
(* TextComparator.compare_blocks: one action per iteration of the loop over *)
(* blocks_a, one for the loop over blocks_b and the return                  *)

\* results as created at lines 169-176; a dict is a function on its keys
EmptyDict == [k \in {} |-> <<>>]

EmptyResults ==
    [ modified |-> <<>>, deleted |-> <<>>, added |-> <<>>, sync_map |-> EmptyDict,
      diff_highlights_a |-> EmptyDict, diff_highlights_b |-> EmptyDict ]

\* d[key] = value
DictSet(d, key, value) ==
    [k \in DOMAIN d \cup {key} |-> IF k = key THEN value ELSE d[k]]

\* if page not in h: h[page] = []; h[page].append(entry)
AddHighlight(h, page, entry) ==
    DictSet(h, page, Append(IF page \in DOMAIN h THEN h[page] ELSE <<>>, entry))

\* a highlight entry; its 'detail' tooltip text is not part of the model
Highlight(block, color) == [bbox |-> block.bbox, color |-> color]

\* the block under the loop variable i, and its match
block_a == At(blocks_a, idx)

match_result == find_best_match(block_a, blocks_b)

InMatchLoop == bpc = "match" /\ idx < Len(blocks_a)

\* lines 184-192 without the test of line 188: a claimed block is taken again
ClaimRule_NoGuard(jj) == TRUE

\* line 188: the match is taken only if its B block is not yet claimed
ClaimRule(jj) == jj \notin matched_b_indices

\* lines 184-197, 'same': the pair is recorded in sync_map only
MatchSame ==
    /\ InMatchLoop
    /\ match_result # NoMatch
    /\ LET jj == match_result[1]
       IN  /\ ClaimRule(jj)
           /\ compare_word_level(block_a.text, At(blocks_b, jj).text) # "modified"
           /\ matched_b_indices' = matched_b_indices \cup {jj}
           /\ results' = [results EXCEPT !.sync_map = DictSet(@, idx, jj)]
    /\ idx' = idx + 1
    /\ UNCHANGED <<blocks_a, blocks_b, bpc>>
    /\ UNCHANGED notBlocks

\* lines 184-232, 'modified': a record and a yellow highlight on both sides
MatchModified ==
    /\ InMatchLoop
    /\ match_result # NoMatch
    /\ LET jj == match_result[1]
           block_b == At(blocks_b, jj)
       IN  /\ ClaimRule(jj)
           /\ compare_word_level(block_a.text, block_b.text) = "modified"
           /\ matched_b_indices' = matched_b_indices \cup {jj}
           /\ results' =
                [results EXCEPT
                   !.sync_map = DictSet(@, idx, jj),
                   !.modified = Append(@, [index_a |-> idx, index_b |-> jj,
                                           block_a |-> block_a, block_b |-> block_b]),
                   !.diff_highlights_a =
                       AddHighlight(@, block_a.page, Highlight(block_a, "yellow")),
                   !.diff_highlights_b =
                       AddHighlight(@, block_b.page, Highlight(block_b, "yellow"))]
    /\ idx' = idx + 1
    /\ UNCHANGED <<blocks_a, blocks_b, bpc>>
    /\ UNCHANGED notBlocks

\* lines 187-189: the best match is already claimed; continue
SkipClaimed ==
    /\ InMatchLoop
    /\ match_result # NoMatch
    /\ ~ClaimRule(match_result[1])
    /\ idx' = idx + 1
    /\ UNCHANGED <<blocks_a, blocks_b, matched_b_indices, results, bpc>>
    /\ UNCHANGED notBlocks

\* the deleted branch with its red highlight put on side B
DeleteBlock_HighlightsB ==
    /\ InMatchLoop
    /\ match_result = NoMatch
    /\ results' =
         [results EXCEPT
            !.deleted = Append(@, [index_a |-> idx, block_a |-> block_a]),
            !.diff_highlights_b =
                AddHighlight(@, block_a.page, Highlight(block_a, "red"))]
    /\ idx' = idx + 1
    /\ UNCHANGED <<blocks_a, blocks_b, matched_b_indices, bpc>>
    /\ UNCHANGED notBlocks

\* lines 233-249: no match; a deleted record and a red highlight
DeleteBlock ==
    /\ InMatchLoop
    /\ match_result = NoMatch
    /\ results' =
         [results EXCEPT
            !.deleted = Append(@, [index_a |-> idx, block_a |-> block_a]),
            !.diff_highlights_a =
                AddHighlight(@, block_a.page, Highlight(block_a, "red"))]
    /\ idx' = idx + 1
    /\ UNCHANGED <<blocks_a, blocks_b, matched_b_indices, bpc>>
    /\ UNCHANGED notBlocks

\* line 253 testing the keys of sync_map (A indices) instead of the claimed
\* B indices
IsUnmatchedB_ByKeys(k) == k \notin DOMAIN results.sync_map

\* line 253: j not in matched_b_indices
IsUnmatchedB(k) == k \notin matched_b_indices

\* the loop of lines 252-268 from index k on
RECURSIVE AddedFrom(_, _)
AddedFrom(res, k) ==
    IF k >= Len(blocks_b) THEN res
    ELSE IF IsUnmatchedB(k)
         THEN AddedFrom(
                [res EXCEPT
                   !.added = Append(@, [index_b |-> k, block_b |-> At(blocks_b, k)]),
                   !.diff_highlights_b =
                       AddHighlight(@, At(blocks_b, k).page,
                                    Highlight(At(blocks_b, k), "green"))],
                k + 1)
         ELSE AddedFrom(res, k + 1)

\* lines 251-270: the loop over blocks_b, then return results
AddUnmatched ==
    /\ bpc = "match"
    /\ idx >= Len(blocks_a)
    /\ results' = AddedFrom(results, 0)
    /\ bpc' = "done"
    /\ UNCHANGED <<blocks_a, blocks_b, idx, matched_b_indices>>
    /\ UNCHANGED notBlocks

BlockStep ==
    \/ MatchSame
    \/ MatchModified
    \/ SkipClaimed
    \/ DeleteBlock
    \/ AddUnmatched

-----------------------------------------------------------------------------
(* Inputs of compare_blocks *)

\* section type and page of the blocks the documents are made of
BlockUniverse ==
    { [text |-> Txt_ab,   section_type |-> "major_content", page |-> 0],
      [text |-> Txt_ac,   section_type |-> "major_content", page |-> 0],
      [text |-> Txt_ab_c, section_type |-> "minor_content", page |-> 1],
      [text |-> Txt_AB,   section_type |-> "minor_content", page |-> 1],
      [text |-> Txt_dot,  section_type |-> "major_content", page |-> 0],
      [text |-> Txt_xy,   section_type |-> "minor_content", page |-> 1] }

\* the blocks of the three-block scenario: two more unrelated texts
ScenarioUniverse ==
    BlockUniverse \cup
    { [text |-> Txt_pq, section_type |-> "major_content", page |-> 1],
      [text |-> Txt_z,  section_type |-> "minor_content", page |-> 0] }

\* the bounding box of the k-th block of a document: one line below the other
BoxAt(k) == <<0, 10 * k, 100, 10 * k + 10>>

\* a document: the given blocks in order, each with its own bounding box
MakeDoc(ts) ==
    [k \in 1..Len(ts) |->
        [text |-> ts[k].text, section_type |-> ts[k].section_type,
         page |-> ts[k].page, bbox |-> BoxAt(k - 1)]]

Docs(U, n) == { MakeDoc(ts) : ts \in SeqsUpTo(U, n) }

\* the block matcher at rest
BlocksIdle ==
    /\ blocks_a = <<>>
    /\ blocks_b = <<>>
    /\ idx = 0
    /\ matched_b_indices = {}
    /\ results = EmptyResults
    /\ bpc = "idle"

\* the aligner at rest
AlignIdle ==
    /\ raw_left = <<>>
    /\ raw_right = <<>>
    /\ words_left = <<>>
    /\ words_right = <<>>
    /\ i = 0
    /\ j = 0
    /\ differences = <<>>
    /\ pc = "idle"

\* normalize_word at rest
NormIdle ==
    /\ token = <<>>
    /\ normalized = <<>>
    /\ renormalized = <<>>
    /\ npc = "idle"

\* perform_comparison at rest
PdIdle ==
    /\ flat_blocks_a = <<>>
    /\ flat_blocks_b = <<>>
    /\ pd_i = 0
    /\ pd_matched_b_indices = {}
    /\ pd_sync_map = EmptyDict
    /\ diff_data_a = EmptyDict
    /\ diff_data_b = EmptyDict
    /\ diff_types = EmptyDict
    /\ ppc = "idle"

\* the TextComparator instances as __init__ leaves them, no call made
Comparators == {1, 2}

CallersIdle ==
    /\ diff_results = [c \in Comparators |-> <<>>]
    /\ comparator = 1
    /\ returned = {}
    /\ calls = 0

\* no PDFViewer of pdf_text_compare_final_v2 in use
ViewerIdle ==
    /\ pdf_doc = FALSE
    /\ zoom = 0
    /\ label_selection = {}
    /\ selected_word_info = <<>>
    /\ word_highlights = EmptyDict
    /\ last_op = "idle"
    /\ ops = 0

\* normalize_korean_number at rest
UnitsIdle ==
    /\ unit_text = <<>>
    /\ unit_k = 0
    /\ unit_result = <<>>
    /\ word_result = <<>>
    /\ upc = "idle"

\* the viewers of the main window
Viewers == {"A", "B"}

\* MainWindow.__init__ (lines 279-295), before any user action
GuiIdle ==
    /\ pdf_path_a = FALSE
    /\ pdf_path_b = FALSE
    /\ comparison_results = <<>>
    /\ btn_compare = TRUE
    /\ running = 0
    /\ pending = <<>>
    /\ is_syncing = FALSE
    /\ scroll = [v \in Viewers |-> 0]
    /\ stack = <<>>
    /\ moves = 0
    /\ origin = <<>>
    /\ events = 0
    /\ page_images = [v \in Viewers |-> FALSE]
    /\ btn_nav = FALSE
    /\ current_diff_index = -1

\* compare_blocks entered with the locals of lines 169-178
InitBlocks ==
    /\ blocks_a \in Docs(BlockUniverse, MaxBlocks)
    /\ blocks_b \in Docs(BlockUniverse, MaxBlocks)
    /\ idx = 0
    /\ matched_b_indices = {}
    /\ results = EmptyResults
    /\ bpc = "match"
    /\ AlignIdle
    /\ NormIdle
    /\ PdIdle
    /\ CallersIdle
    /\ ViewerIdle
    /\ UnitsIdle
    /\ GuiIdle

NextBlocks == BlockStep

SpecBlocks == InitBlocks /\ [][NextBlocks]_vars

\* compare_blocks entered with A = [T1, T2, T3] and B = [T1, T2', T4]
InitScenario ==
    /\ \E T1 \in ScenarioUniverse, T2 \in ScenarioUniverse, T2p \in ScenarioUniverse,
          T3 \in ScenarioUniverse, T4 \in ScenarioUniverse :
          /\ blocks_a = MakeDoc(<<T1, T2, T3>>)
          /\ blocks_b = MakeDoc(<<T1, T2p, T4>>)
    /\ idx = 0
    /\ matched_b_indices = {}
    /\ results = EmptyResults
    /\ bpc = "match"
    /\ AlignIdle
    /\ NormIdle
    /\ PdIdle
    /\ CallersIdle
    /\ ViewerIdle
    /\ UnitsIdle
    /\ GuiIdle

SpecScenario == InitScenario /\ [][NextBlocks]_vars

-----------------------------------------------------------------------------
(* SpecAlign: compare_with_resync on every pair of bounded word lists *)

\* words of the aligner's inputs: two one-letter words and their join
AlignWords == { <<"a">>, <<"b">>, <<"a", "b">> }

InitAlign ==
    /\ raw_left = <<>>
    /\ raw_right = <<>>
    /\ words_left \in SeqsUpTo(AlignWords, MaxWords)
    /\ words_right \in SeqsUpTo(AlignWords, MaxWords)
    /\ i = 0
    /\ j = 0
    /\ differences = <<>>
    /\ pc = "loop"
    /\ BlocksIdle
    /\ NormIdle
    /\ PdIdle
    /\ CallersIdle
    /\ ViewerIdle
    /\ UnitsIdle
    /\ GuiIdle

NextAlign == AlignStep

SpecAlign == InitAlign /\ [][NextAlign]_vars

-----------------------------------------------------------------------------
(* SpecNormalize: normalize_word on a token, then on its own result *)

\* normalize_word(token)
NormalizeOnce ==
    /\ npc = "raw"
    /\ normalized' = normalize_word(token)
    /\ npc' = "once"
    /\ UNCHANGED <<token, renormalized>>
    /\ UNCHANGED notNorm

\* normalize_word(normalize_word(token))
NormalizeAgain ==
    /\ npc = "once"
    /\ renormalized' = normalize_word(normalized)
    /\ npc' = "twice"
    /\ UNCHANGED <<token, normalized>>
    /\ UNCHANGED notNorm

\* characters of the tokens of SpecNormalize
TokenChars == {"o", "O", "0", "1", ",", ".", " ", "man", "eok"}

\* the raw tokens of the spec's example: "amount", "1,000 man won", 10000000
Tok_amount == <<"geum", "aek">>

Tok_1000_man_won == <<"1", ",", "0", "0", "0", "man", "won">>

Tok_10000000 == <<"1", "0", "0", "0", "0", "0", "0", "0">>

NormTokens ==
    { t \in SeqsUpTo(TokenChars, MaxTokenLen) : t # <<>> }
        \cup {Tok_amount, Tok_1000_man_won, Tok_10000000}

InitNormalize ==
    /\ token \in NormTokens
    /\ normalized = <<>>
    /\ renormalized = <<>>
    /\ npc = "raw"
    /\ AlignIdle
    /\ BlocksIdle
    /\ PdIdle
    /\ CallersIdle
    /\ ViewerIdle
    /\ UnitsIdle
    /\ GuiIdle

NextNormalize == NormalizeOnce \/ NormalizeAgain

SpecNormalize == InitNormalize /\ [][NextNormalize]_vars

-----------------------------------------------------------------------------
(* SpecPipeline: two selections are extracted (extract_text_with_word_info) *)
(* and compared (compare_texts, compare_with_resync)                        *)

\* on_selection_complete of the left viewer: selected_word_info is rebuilt
ExtractLeft ==
    /\ pc \in {"extract", "right_done"}
    /\ words_left' = SelectedWords(raw_left)
    /\ pc' = IF pc = "extract" THEN "left_done" ELSE "selected"
    /\ UNCHANGED <<raw_left, raw_right, words_right, i, j, differences>>
    /\ UNCHANGED notAlign

\* on_selection_complete of the right viewer
ExtractRight ==
    /\ pc \in {"extract", "left_done"}
    /\ words_right' = SelectedWords(raw_right)
    /\ pc' = IF pc = "extract" THEN "right_done" ELSE "selected"
    /\ UNCHANGED <<raw_left, raw_right, words_left, i, j, differences>>
    /\ UNCHANGED notAlign

\* compare_texts (lines 1030-1036): a side without selection, warn and return
CompareRefused ==
    /\ pc = "selected"
    /\ (words_left = <<>> \/ words_right = <<>>)
    /\ pc' = "warned"
    /\ UNCHANGED <<raw_left, raw_right, words_left, words_right, i, j, differences>>
    /\ UNCHANGED notAlign

\* compare_texts (lines 1091-1097): compare_with_resync is entered on the
\* 'normalized' entries of both selections
CompareTexts ==
    /\ pc = "selected"
    /\ words_left # <<>>
    /\ words_right # <<>>
    /\ i' = 0
    /\ j' = 0
    /\ differences' = <<>>
    /\ pc' = "loop"
    /\ UNCHANGED <<raw_left, raw_right, words_left, words_right>>
    /\ UNCHANGED notAlign

\* raw tokens of the selections
RawTokens ==
    { Tok_amount, Tok_1000_man_won, Tok_10000000, <<"a">>, <<"b">>, <<"a", "b">> }

InitPipeline ==
    /\ raw_left \in SeqsUpTo(RawTokens, MaxTokens)
    /\ raw_right \in SeqsUpTo(RawTokens, MaxTokens)
    /\ words_left = <<>>
    /\ words_right = <<>>
    /\ i = 0
    /\ j = 0
    /\ differences = <<>>
    /\ pc = "extract"
    /\ BlocksIdle
    /\ NormIdle
    /\ PdIdle
    /\ CallersIdle
    /\ ViewerIdle
    /\ UnitsIdle
    /\ GuiIdle

NextPipeline ==
    \/ ExtractLeft
    \/ ExtractRight
    \/ CompareRefused
    \/ CompareTexts
    \/ AlignStep

SpecPipeline == InitPipeline /\ [][NextPipeline]_vars

-----------------------------------------------------------------------------
(* PDdiff: normalize_text, is_placeholder_diff, find_best_match,            *)
(* compare_text_blocks.  Further syllables: "bo" U+BCF4, "heom" U+D5D8,    *)
(* "gi" U+AE30, "gan" U+AC04, "se" U+C138, "jang" U+C7A5, "seong" U+C131,  *)
(* "pyo" U+D45C, "jun" U+C900, "hyeong" U+D615, "hae" U+D574, "yak"        *)
(* U+C57D, "hwan" U+D658, "geup" U+AE09, "ji" U+C9C0, "nyeon" U+B144,      *)
(* "wol" U+C6D4, "il" U+C77C; "circle" is U+25CB and "times" U+00D7.       *)

UpperSeq ==
    <<"A", "B", "C", "D", "E", "F", "G", "H", "I", "J", "K", "L", "M",
      "N", "O", "P", "Q", "R", "S", "T", "U", "V", "W", "X", "Y", "Z">>

LowerSeq ==
    <<"a", "b", "c", "d", "e", "f", "g", "h", "i", "j", "k", "l", "m",
      "n", "o", "p", "q", "r", "s", "t", "u", "v", "w", "x", "y", "z">>

\* [A-Z]
AsciiUpper == { UpperSeq[n] : n \in 1..Len(UpperSeq) }

AsciiLower == { LowerSeq[n] : n \in 1..Len(LowerSeq) }

\* \d
AsciiDigits == {"0", "1", "2", "3", "4", "5", "6", "7", "8", "9"}

\* [가-힣]
HangulSyllables ==
    Hangul \cup {"bo", "heom", "gi", "gan", "se", "jang", "seong", "pyo", "jun",
                 "hyeong", "hae", "yak", "hwan", "geup", "ji", "nyeon", "wol", "il"}

\* \w
AsciiWordChars == AsciiUpper \cup AsciiLower \cup AsciiDigits \cup HangulSyllables \cup {"_"}

\* str.lower() over the whole alphabet
ToLower(c) ==
    IF c \in AsciiUpper
    THEN LowerSeq[CHOOSE n \in 1..Len(UpperSeq) : UpperSeq[n] = c]
    ELSE c

\* [IVX] under re.IGNORECASE
RomanChars == {"I", "V", "X", "i", "v", "x"}

\* length of the run of word characters at the head of s
RECURSIVE WordRun(_)
WordRun(s) ==
    IF s = <<>> \/ Head(s) \notin AsciiWordChars THEN 0 ELSE 1 + WordRun(Tail(s))

\* re.sub(r'\b[IVX]+\b', '', s, flags=re.IGNORECASE) on a text of word
\* characters and whitespace: every word made of roman digits only goes
RECURSIVE RemoveRoman(_)
RemoveRoman(s) ==
    IF s = <<>> THEN <<>>
    ELSE IF Head(s) \notin AsciiWordChars
         THEN <<Head(s)>> \o RemoveRoman(Tail(s))
         ELSE LET n == WordRun(s)
                  w == SubSeq(s, 1, n)
              IN  (IF \A k \in 1..n : w[k] \in RomanChars THEN <<>> ELSE w)
                      \o RemoveRoman(SubSeq(s, n + 1, Len(s)))

IsWordOrSpace(c) == c \in AsciiWordChars \/ c \in SpaceChars

IsNoSpace(c) == c \notin SpaceChars

\* PDdiff.normalize_text
PDdiff_normalize_text(text) ==
    LET step1 == SelectSeq(text, IsWordOrSpace)
        step2 == RemoveRoman(step1)
        step3 == SelectSeq(step2, IsNoSpace)
    IN  [n \in 1..Len(step3) |-> ToLower(step3[n])]

\* A regular expression is a list of items: a character class repeated
\* lo..hi times, or a starred group of items.
Unbounded == 99

Cls(S, lo, hi) == [kind |-> "cls", cls |-> S, lo |-> lo, hi |-> hi, star |-> <<>>]

Lit(c) == <<Cls({c}, 1, 1)>>

Lits(cs) == [n \in 1..Len(cs) |-> Cls({cs[n]}, 1, 1)]

Star(items) == <<[kind |-> "star", cls |-> {}, lo |-> 0, hi |-> 0, star |-> items]>>

\* \d{lo,hi} and \s*
D(lo, hi) == <<Cls(AsciiDigits, lo, hi)>>

Ws == <<Cls(SpaceChars, 0, Unbounded)>>

\* the positions at which a match of the items that starts at pos can end
RECURSIVE Ends(_, _, _), ItemEnds(_, _, _), StarEnds(_, _, _)
Ends(items, text, pos) ==
    IF items = <<>> THEN {pos}
    ELSE UNION { Ends(Tail(items), text, e) : e \in ItemEnds(Head(items), text, pos) }

ItemEnds(it, text, pos) ==
    IF it.kind = "cls"
    THEN { pos + n : n \in { m \in it.lo..Min(it.hi, Len(text) - pos) :
                               \A q \in 0..(m - 1) : At(text, pos + q) \in it.cls } }
    ELSE StarEnds(it.star, text, pos)

StarEnds(group, text, pos) ==
    {pos} \cup UNION { StarEnds(group, text, e) : e \in Ends(group, text, pos) \ {pos} }

\* re.search(pattern, text) finds a match
re_search(pattern, text) == \E s \in 0..Len(text) : Ends(pattern, text, s) # {}

\* \d{1,3}(,\d{3})*
Grouped == D(1, 3) \o Star(Lit(",") \o D(3, 3))

\* placeholder_patterns of is_placeholder_diff, in the order of the list
placeholder_patterns ==
    << Lits(<<"circle", "circle", "circle">>),
       Lits(<<"x", "x", "x">>),
       Lits(<<"x", ".", "x", "x", "%">>),
       Lits(<<"times", "times", "se">>),
       Lits(<<"times", "times", "times", "times">>),
       Lits(<<"O", " ", "/", " ", "O">>),
       <<Cls({"O"}, 12, 12)>>,
       Lit("[") \o Ws \o Lits(<<"bo", "jang", "seong", "bo", "heom">>) \o Ws \o Lit("]"),
       Lit("[") \o Ws \o Lits(<<"pyo", "jun", "hyeong">>) \o Ws \o Lit("]"),
       Lit("[") \o Ws \o Lits(<<"hae", "yak", "hwan", "geup", "geum">>) \o Ws
           \o Lits(<<"5", "0", "%">>) \o Ws \o Lits(<<"ji", "geup", "hyeong">>)
           \o Ws \o Lit("]"),
       D(4, 4) \o Lit("nyeon") \o Ws \o D(2, 2) \o Lit("wol") \o Ws \o D(2, 2)
           \o Lit("il") \o Ws \o D(2, 2) \o Lit(":") \o D(2, 2),
       D(3, 3) \o Lit("-") \o D(4, 4) \o Lit("-") \o D(4, 4),
       D(1, 2) \o Lit("/") \o D(1, 2),
       D(1, 2) \o Lit("se"),
       <<Cls(HangulSyllables, 2, 4)>>,
       Grouped \o Lit("won"),
       D(1, 2) \o Lit(".") \o D(2, 2) \o Lit("%"),
       Grouped \o Ws \o Lits(<<"man", "won">>),
       Grouped \o Ws \o Lit("won"),
       D(1, 2) \o Lit(".") \o D(2, 2),
       D(1, 4),
       <<Cls(AsciiUpper, 4, 6)>> >>

\* the loop of lines 50-54: some pattern is found in the text
HasPlaceholder(text) ==
    \E n \in 1..Len(placeholder_patterns) : re_search(placeholder_patterns[n], text)

\* is_placeholder_diff with the commented-out test of B (lines 67-70) in
\* place of the test of A
is_placeholder_diff_TestsB(text_a, text_b) ==
    HasPlaceholder(text_b) /\ Strip(text_a) # Strip(text_b)

\* PDdiff.is_placeholder_diff
is_placeholder_diff(text_a, text_b) ==
    HasPlaceholder(text_a) /\ Strip(text_a) # Strip(text_b)

\* compare_text_blocks without the identity test of lines 132-133
compare_text_blocks_NoIdentityTest(a, b) ==
    IF is_placeholder_diff(a.text, b.text) THEN "placeholder"
    ELSE "modified"

\* PDdiff.compare_text_blocks: 'same', 'placeholder' or 'modified'
compare_text_blocks(a, b) ==
    IF a.text = b.text THEN "same"
    ELSE IF is_placeholder_diff(a.text, b.text) THEN "placeholder"
    ELSE "modified"

\* the texts of the blocks of SpecPDdiff: "insurance term: xx years",
\* "insurance term: 30 years", two latin texts and two texts whose
\* normalized text is empty
Pd_term_xx == <<"bo", "heom", "gi", "gan", ":", " ", "times", "times", "se">>

Pd_term_30 == <<"bo", "heom", "gi", "gan", ":", " ", "3", "0", "se">>

Pd_abcde == <<"a", "b", "c", "d", "e">>

Pd_abcd3 == <<"a", "b", "c", "d", "3">>

Pd_III == <<"I", "I", "I">>

Pd_dash == <<"-">>

PdTexts == {Pd_term_xx, Pd_term_30, Pd_abcde, Pd_abcd3, Pd_III, Pd_dash}

\* 'normalized_text' of extract_text_blocks, per text
PdNormOf == [t \in PdTexts |-> PDdiff_normalize_text(t)] @@ <<>>

\* the placeholder test of text_a, per text
PdPlaceholderOf == [t \in PdTexts |-> HasPlaceholder(t)] @@ <<>>

\* SequenceMatcher(None, a, b).ratio(): 1.0 when both are empty
PdRatio(a, b) == IF Len(a) + Len(b) = 0 THEN <<1, 1>> ELSE Ratio(a, b)

PdRatioOf ==
    [p \in PdTexts \X PdTexts |-> PdRatio(PdNormOf[p[1]], PdNormOf[p[2]])] @@ <<>>

\* the acceptance threshold of PDdiff.find_best_match
PdThreshold == <<8, 10>>

\* the loop of PDdiff.find_best_match (lines 108-117) from index k on;
\* best is [score, index]
RECURSIVE PdBestFrom(_, _, _, _)
PdBestFrom(target_block, source_blocks, k, best) ==
    IF k >= Len(source_blocks) THEN best
    ELSE LET score == PdRatioOf[<<target_block.text, At(source_blocks, k).text>>]
         IN  PdBestFrom(target_block, source_blocks, k + 1,
                        IF FracGt(score, best.score)
                        THEN [score |-> score, index |-> k]
                        ELSE best)

\* flat_blocks_b.index(best_match_b): the first index of an equal block
IndexOf(blocks, b) == SetMin({ k \in 0..(Len(blocks) - 1) : At(blocks, k) = b })

\* PDdiff.find_best_match followed by flat_blocks_b.index (line 165): the
\* index j of the best match, or None
PDdiff_find_best_match(target_block, source_blocks) ==
    LET best == PdBestFrom(target_block, source_blocks, 0,
                           [score |-> <<-1, 1>>, index |-> -1])
    IN  IF FracGe(best.score, PdThreshold)
        THEN IndexOf(source_blocks, At(source_blocks, best.index))
        ELSE None

-----------------------------------------------------------------------------
(* PDdiff.perform_comparison: one action per iteration of the loop over     *)
(* flat_blocks_a, one for the loop over flat_blocks_b and the return        *)

pd_block_a == At(flat_blocks_a, pd_i)

best_match_b == PDdiff_find_best_match(pd_block_a, flat_blocks_b)

InPdLoop == ppc = "match" /\ pd_i < Len(flat_blocks_a)

\* diff_data.setdefault(page, []).append((bbox, color))
AddDiff(d, block, color) ==
    DictSet(d, block.page,
            Append(IF block.page \in DOMAIN d THEN d[block.page] ELSE <<>>,
                   [bbox |-> block.bbox, color |-> color]))

\* lines 163-170 with the given diff_type: the match is recorded
PdRecordMatch(diff_type) ==
    /\ InPdLoop
    /\ best_match_b # None
    /\ compare_text_blocks(pd_block_a, At(flat_blocks_b, best_match_b)) = diff_type
    /\ pd_matched_b_indices' = pd_matched_b_indices \cup {best_match_b}
    /\ pd_sync_map' = DictSet(pd_sync_map, pd_i, best_match_b)
    /\ diff_types' = DictSet(diff_types, pd_i, diff_type)
    /\ pd_i' = pd_i + 1
    /\ UNCHANGED <<flat_blocks_a, flat_blocks_b, ppc>>
    /\ UNCHANGED notPd

\* 'same': no highlight
PdSame ==
    /\ PdRecordMatch("same")
    /\ UNCHANGED <<diff_data_a, diff_data_b>>

\* 'placeholder': no highlight (line 180)
PdPlaceholder ==
    /\ PdRecordMatch("placeholder")
    /\ UNCHANGED <<diff_data_a, diff_data_b>>

\* 'modified' (lines 172-178): a yellow highlight on both sides
PdModified ==
    /\ PdRecordMatch("modified")
    /\ diff_data_a' = AddDiff(diff_data_a, pd_block_a, "yellow")
    /\ diff_data_b' = AddDiff(diff_data_b, At(flat_blocks_b, best_match_b), "yellow")

\* lines 182-185: no match; a red highlight on side A
PdDeleted ==
    /\ InPdLoop
    /\ best_match_b = None
    /\ diff_data_a' = AddDiff(diff_data_a, pd_block_a, "red")
    /\ pd_i' = pd_i + 1
    /\ UNCHANGED <<flat_blocks_a, flat_blocks_b, pd_matched_b_indices, pd_sync_map,
                   diff_data_b, diff_types, ppc>>
    /\ UNCHANGED notPd

\* the loop of lines 188-192 from index k on
RECURSIVE PdAddedFrom(_, _)
PdAddedFrom(d, k) ==
    IF k >= Len(flat_blocks_b) THEN d
    ELSE IF k \notin pd_matched_b_indices
         THEN PdAddedFrom(AddDiff(d, At(flat_blocks_b, k), "green"), k + 1)
         ELSE PdAddedFrom(d, k + 1)

\* lines 187-194: the loop over flat_blocks_b, then return
PdAdded ==
    /\ ppc = "match"
    /\ pd_i >= Len(flat_blocks_a)
    /\ diff_data_b' = PdAddedFrom(diff_data_b, 0)
    /\ ppc' = "done"
    /\ UNCHANGED <<flat_blocks_a, flat_blocks_b, pd_i, pd_matched_b_indices,
                   pd_sync_map, diff_data_a, diff_types>>
    /\ UNCHANGED notPd

\* the blocks of extract_text_blocks for the given texts: the first block on
\* page 0, the others on page 1, each with its own bounding box
PdDoc(ts) ==
    [k \in 1..Len(ts) |->
        [page |-> IF k = 1 THEN 0 ELSE 1, bbox |-> BoxAt(k - 1), text |-> ts[k]]]

PdDocs == { PdDoc(ts) : ts \in SeqsUpTo(PdTexts, MaxBlocks) }

\* perform_comparison entered with the locals of lines 147-158
InitPDdiff ==
    /\ flat_blocks_a \in PdDocs
    /\ flat_blocks_b \in PdDocs
    /\ pd_i = 0
    /\ pd_matched_b_indices = {}
    /\ pd_sync_map = EmptyDict
    /\ diff_data_a = EmptyDict
    /\ diff_data_b = EmptyDict
    /\ diff_types = EmptyDict
    /\ ppc = "match"
    /\ AlignIdle
    /\ BlocksIdle
    /\ NormIdle
    /\ CallersIdle
    /\ ViewerIdle
    /\ UnitsIdle
    /\ GuiIdle

NextPDdiff ==
    \/ PdSame
    \/ PdPlaceholder
    \/ PdModified
    \/ PdDeleted
    \/ PdAdded

SpecPDdiff == InitPDdiff /\ [][NextPDdiff]_vars

-----------------------------------------------------------------------------
(* SpecCalls: repeated calls of compare_blocks on one or two TextComparator *)
(* instances (insurance_compare_gui.py lines 51-52, test_comparison.py      *)
(* lines 71-72)                                                             *)

\* number of calls of compare_blocks in one run
MaxCalls == 2

\* what the other components leave alone is left alone by the callers too
notCallers == <<alignVars, normVars, pdVars, viewerVars, unitVars, guiVars>>

\* the documents handed to the calls
CallDocs ==
    { MakeDoc(ts) : ts \in
        { << [text |-> Txt_ab, section_type |-> "major_content", page |-> 0] >>,
          << [text |-> Txt_ab, section_type |-> "major_content", page |-> 0],
             [text |-> Txt_ab, section_type |-> "major_content", page |-> 0] >>,
          << [text |-> Txt_ac, section_type |-> "major_content", page |-> 0],
             [text |-> Txt_dot, section_type |-> "major_content", page |-> 0] >> } }

\* compare_blocks entered keeping the matched_b_indices of the call before
\* (as if the set were kept on the instance)
EnterCompareBlocks_KeepsClaims(a, b) ==
    /\ blocks_a' = a
    /\ blocks_b' = b
    /\ idx' = 0
    /\ matched_b_indices' = matched_b_indices
    /\ results' = EmptyResults
    /\ bpc' = "match"

\* compare_blocks entered (lines 169-178): fresh results, fresh
\* matched_b_indices
EnterCompareBlocks(a, b) ==
    /\ blocks_a' = a
    /\ blocks_b' = b
    /\ idx' = 0
    /\ matched_b_indices' = {}
    /\ results' = EmptyResults
    /\ bpc' = "match"

\* comparator.compare_blocks(blocks_a, blocks_b) is called on an instance
CallCompareBlocks ==
    /\ bpc \in {"idle", "returned"}
    /\ calls < MaxCalls
    /\ \E c \in Comparators, a \in CallDocs, b \in CallDocs :
          /\ comparator' = c
          /\ EnterCompareBlocks(a, b)
    /\ calls' = calls + 1
    /\ UNCHANGED <<diff_results, returned>>
    /\ UNCHANGED notCallers

\* return results (line 270): the caller holds the result
ReturnResults ==
    /\ bpc = "done"
    /\ returned' = returned \cup
          {[blocks_a |-> blocks_a, blocks_b |-> blocks_b, results |-> results]}
    /\ bpc' = "returned"
    /\ UNCHANGED <<blocks_a, blocks_b, idx, matched_b_indices, results>>
    /\ UNCHANGED <<diff_results, comparator, calls>>
    /\ UNCHANGED notCallers

InitCalls ==
    /\ CallersIdle
    /\ ViewerIdle
    /\ UnitsIdle
    /\ GuiIdle
    /\ BlocksIdle
    /\ AlignIdle
    /\ NormIdle
    /\ PdIdle

NextCalls ==
    \/ CallCompareBlocks
    \/ ReturnResults
    \/ BlockStep

SpecCalls == InitCalls /\ [][NextCalls]_vars

-----------------------------------------------------------------------------
(* pdf_text_compare_final_v2.PDFViewer: the operations on one viewer        *)

\* number of viewer operations in one run
MaxOps == 3

\* pages of the loaded document
ViewerPages == {0, 1}

\* the selections extract_text_with_word_info can produce
WordInfos ==
    { <<>>,
      << [text |-> "w1", bbox |-> BoxAt(0), page |-> 0] >>,
      << [text |-> "w1", bbox |-> BoxAt(0), page |-> 0],
         [text |-> "w2", bbox |-> BoxAt(1), page |-> 1] >> }

\* the word_diffs lists compare_texts hands to highlight_word_differences
WordDiffs ==
    { <<>>,
      << [word |-> "w1", type |-> "add", bbox |-> BoxAt(0), page |-> 0] >>,
      << [word |-> "w1", type |-> "delete", bbox |-> BoxAt(0), page |-> 0],
         [word |-> "w2", type |-> "change", bbox |-> BoxAt(1), page |-> 1] >> }

\* the colour of a difference (lines 325-330)
DiffColor(diff_type) ==
    CASE diff_type = "add" -> <<0, 255, 0, 120>>
      [] diff_type = "delete" -> <<255, 0, 0, 120>>
      [] OTHER -> <<255, 200, 0, 120>>

\* the loop of highlight_word_differences (lines 318-339)
RECURSIVE HighlightsAfter(_, _)
HighlightsAfter(h, word_diffs) ==
    IF word_diffs = <<>> THEN h
    ELSE LET diff == Head(word_diffs)
             entry == <<diff.bbox, DiffColor(diff.type), diff.word>>
         IN  HighlightsAfter(
                 DictSet(h, diff.page,
                         Append(IF diff.page \in DOMAIN h THEN h[diff.page] ELSE <<>>,
                                entry)),
                 Tail(word_diffs))

\* one more viewer operation, named op
ViewerOp(op) ==
    /\ ops < MaxOps
    /\ ops' = ops + 1
    /\ last_op' = op
    /\ UNCHANGED notViewer

\* reload_pages (lines 204-226): with a document, the selections are cleared
\* and the pages rendered again
SelectionAfterReload == IF pdf_doc THEN {} ELSE label_selection

\* load_pdf (lines 143-169): new labels for the pages of the document, or no
\* document and no labels when the file cannot be opened
LoadPdf ==
    /\ ViewerOp("load_pdf")
    /\ \E opened \in BOOLEAN : pdf_doc' = opened
    /\ label_selection' = {}
    /\ UNCHANGED <<zoom, selected_word_info, word_highlights>>

\* zoom_in (lines 194-197)
ZoomIn ==
    /\ ViewerOp("zoom_in")
    /\ zoom' = zoom + 1
    /\ label_selection' = SelectionAfterReload
    /\ UNCHANGED <<pdf_doc, selected_word_info, word_highlights>>

\* zoom_out (lines 199-202)
ZoomOut ==
    /\ ViewerOp("zoom_out")
    /\ zoom' = zoom - 1
    /\ label_selection' = SelectionAfterReload
    /\ UNCHANGED <<pdf_doc, selected_word_info, word_highlights>>

\* reload_pages (lines 204-226)
ReloadPages ==
    /\ ViewerOp("reload_pages")
    /\ label_selection' = SelectionAfterReload
    /\ UNCHANGED <<pdf_doc, zoom, selected_word_info, word_highlights>>

\* a drag on the label of a page ends (mouseReleaseEvent, lines 43-57):
\* on_selection_complete (lines 228-239) extracts the words of a rectangle
\* that is large enough
OnSelectionComplete ==
    /\ ViewerOp("on_selection_complete")
    /\ pdf_doc
    /\ \E page \in ViewerPages, large \in BOOLEAN, info \in WordInfos :
          /\ label_selection' = label_selection \cup {page}
          /\ selected_word_info' = IF large THEN info ELSE selected_word_info
    /\ UNCHANGED <<pdf_doc, zoom, word_highlights>>

\* clear_all_selections clearing the highlights with the selections
ClearAllSelections_ClearsHighlights ==
    /\ ViewerOp("clear_all_selections")
    /\ label_selection' = {}
    /\ word_highlights' = EmptyDict
    /\ UNCHANGED <<pdf_doc, zoom, selected_word_info>>

\* clear_all_selections (lines 306-310)
ClearAllSelections ==
    /\ ViewerOp("clear_all_selections")
    /\ label_selection' = {}
    /\ UNCHANGED <<pdf_doc, zoom, selected_word_info, word_highlights>>

\* highlight_word_differences (lines 312-347)
HighlightWordDifferences ==
    /\ ViewerOp("highlight_word_differences")
    /\ \E word_diffs \in WordDiffs :
          word_highlights' = HighlightsAfter(word_highlights, word_diffs)
    /\ UNCHANGED <<pdf_doc, zoom, label_selection, selected_word_info>>

\* clear_highlights (lines 382-386)
ClearHighlights ==
    /\ ViewerOp("clear_highlights")
    /\ word_highlights' = EmptyDict
    /\ UNCHANGED <<pdf_doc, zoom, label_selection, selected_word_info>>

\* PDFViewer.__init__ (lines 107-132)
InitViewer ==
    /\ ViewerIdle
    /\ UnitsIdle
    /\ GuiIdle
    /\ AlignIdle
    /\ BlocksIdle
    /\ NormIdle
    /\ PdIdle
    /\ CallersIdle

NextViewer ==
    \/ LoadPdf
    \/ ZoomIn
    \/ ZoomOut
    \/ ReloadPages
    \/ OnSelectionComplete
    \/ ClearAllSelections
    \/ HighlightWordDifferences
    \/ ClearHighlights

SpecViewer == InitViewer /\ [][NextViewer]_vars

-----------------------------------------------------------------------------
(* PDFViewer.normalize_korean_number and normalize_word applied to one text *)
(* that holds digits, commas and magnitude units                            *)

\* longest text handed to normalize_korean_number in SpecUnits
MaxUnitLen == 5

\* characters of the texts of SpecUnits
UnitChars == {"0", "1", ",", "man", "eok", "jo"}

UnitTexts == { t \in SeqsUpTo(UnitChars, MaxUnitLen) : t # <<>> }

\* one iteration of the loop of lines 546-562
ExpandUnit ==
    /\ upc = "loop"
    /\ unit_k < Len(units)
    /\ unit_result' = ConvertUnit(unit_result, units[unit_k + 1])
    /\ unit_k' = unit_k + 1
    /\ UNCHANGED <<unit_text, word_result, upc>>
    /\ UNCHANGED notUnits

\* lines 564-567: the remaining commas are removed, the text is returned
RemoveRemainingCommas ==
    /\ upc = "loop"
    /\ unit_k = Len(units)
    /\ unit_result' = RemoveCommas(unit_result)
    /\ upc' = "units"
    /\ UNCHANGED <<unit_text, unit_k, word_result>>
    /\ UNCHANGED notUnits

\* normalize_word(unit_text) (lines 600-619)
NormalizeUnitWord ==
    /\ upc = "units"
    /\ word_result' = normalize_word(unit_text)
    /\ upc' = "word"
    /\ UNCHANGED <<unit_text, unit_k, unit_result>>
    /\ UNCHANGED notUnits

InitUnits ==
    /\ unit_text \in UnitTexts
    /\ unit_k = 0
    /\ unit_result = unit_text
    /\ word_result = <<>>
    /\ upc = "loop"
    /\ AlignIdle
    /\ BlocksIdle
    /\ NormIdle
    /\ PdIdle
    /\ CallersIdle
    /\ ViewerIdle
    /\ GuiIdle

NextUnits == ExpandUnit \/ RemoveRemainingCommas \/ NormalizeUnitWord

SpecUnits == InitUnits /\ [][NextUnits]_vars

-----------------------------------------------------------------------------
(* The two block matchers side by side: TextComparator.compare_blocks and   *)
(* PDdiff.perform_comparison, each on its own documents                     *)

\* a block of compare_blocks with the given text
MajorBlock(text) == [text |-> text, section_type |-> "major_content", page |-> 0]

\* documents of compare_blocks: equal texts, a claimed match, a modified and
\* an unmatched block
PairDocs ==
    { MakeDoc(<<MajorBlock(Txt_ab)>>),
      MakeDoc(<<MajorBlock(Txt_ab), MajorBlock(Txt_ab)>>),
      MakeDoc(<<MajorBlock(Txt_ab_c), MajorBlock(Txt_xy)>>) }

\* documents of perform_comparison: a placeholder text, its filled-in form,
\* and two latin texts that differ in one character
PdPairDocs ==
    { PdDoc(<<Pd_term_xx>>), PdDoc(<<Pd_term_30>>), PdDoc(<<Pd_abcde>>),
      PdDoc(<<Pd_abcd3, Pd_term_xx>>) }

InitMatchers ==
    /\ blocks_a \in PairDocs
    /\ blocks_b \in PairDocs
    /\ idx = 0
    /\ matched_b_indices = {}
    /\ results = EmptyResults
    /\ bpc = "match"
    /\ flat_blocks_a \in PdPairDocs
    /\ flat_blocks_b \in PdPairDocs
    /\ pd_i = 0
    /\ pd_matched_b_indices = {}
    /\ pd_sync_map = EmptyDict
    /\ diff_data_a = EmptyDict
    /\ diff_data_b = EmptyDict
    /\ diff_types = EmptyDict
    /\ ppc = "match"
    /\ AlignIdle
    /\ NormIdle
    /\ CallersIdle
    /\ ViewerIdle
    /\ UnitsIdle
    /\ GuiIdle

NextMatchers ==
    \/ MatchSame
    \/ MatchModified
    \/ SkipClaimed
    \/ DeleteBlock
    \/ AddUnmatched
    \/ PdSame
    \/ PdPlaceholder
    \/ PdModified
    \/ PdDeleted
    \/ PdAdded

SpecMatchers == InitMatchers /\ [][NextMatchers]_vars

-----------------------------------------------------------------------------
(* compare_with_resync on words that split differently: one side holds a    *)
(* word, the other side its pieces                                          *)

\* longest run of pieces, and longest word, of SpecMerge
MaxJoin == 6

\* the pieces
MergePieces == { <<"a">>, <<"a", "a">> }

\* the words 'a', 'aa', ... of up to MaxJoin characters
MergeWholes == { [n \in 1..m |-> "a"] : m \in 1..MaxJoin }

InitMerge ==
    /\ raw_left = <<>>
    /\ raw_right = <<>>
    /\ words_left \in SeqsUpTo(MergePieces, MaxJoin)
    /\ words_right \in { <<w>> \o t : w \in MergeWholes, t \in SeqsUpTo(MergePieces, 1) }
    /\ i = 0
    /\ j = 0
    /\ differences = <<>>
    /\ pc = "loop"
    /\ BlocksIdle
    /\ NormIdle
    /\ PdIdle
    /\ CallersIdle
    /\ ViewerIdle
    /\ UnitsIdle
    /\ GuiIdle

NextMerge == AlignStep

SpecMerge == InitMerge /\ [][NextMerge]_vars

\* the while loop of line 162 keeps running until its condition fails or
\* line 165 breaks: an enabled iteration is eventually taken
SpecMergeFair == SpecMerge /\ WF_vars(NextMerge)

-----------------------------------------------------------------------------
(* insurance_compare_gui: the compare button, the worker and sync_scroll *)

\* number of user actions (file dialogs, clicks, scrolls) in SpecGui
MaxEvents == 6

\* largest value of a viewer's vertical scrollbar in SpecGui
MaxPos == 2

\* a third of the viewport height, subtracted by get_scroll_from_block
Third == 1

Pos == 0..MaxPos

\* what ComparisonWorker.run packages: the top of every block of each side,
\* the sync_map of compare_blocks and the differences in the order in which
\* comparison_finished lists them (modified, deleted, added)
Outputs ==
    { [blocks_a |-> <<1, 2>>, blocks_b |-> <<1, 2>>,
       sync_map |-> (1 :> 1 @@ 2 :> 2), diffs |-> <<>>],
      [blocks_a |-> <<1, 2>>, blocks_b |-> <<2>>,
       sync_map |-> (2 :> 1), diffs |-> << <<"A", 1>> >>],
      [blocks_a |-> <<2>>, blocks_b |-> <<1, 3>>,
       sync_map |-> (1 :> 2), diffs |-> << <<"A", 1>>, <<"B", 1>> >>] }

\* the other viewer: the target of a sync_scroll whose source is v
Other(v) == IF v = "A" THEN "B" ELSE "A"

\* self.diff_indices, rebuilt from the results by comparison_finished
diff_indices ==
    IF comparison_results = <<>> THEN <<>> ELSE comparison_results[1].diffs

\* blocks_a or blocks_b of the finished comparison
BlocksOf(v) ==
    IF v = "A" THEN comparison_results[1].blocks_a
    ELSE comparison_results[1].blocks_b

\* {v: k for k, v in sync_map.items()}: a later key overwrites an earlier one
InvertMap(m) ==
    [t \in {m[k] : k \in DOMAIN m} |->
        CHOOSE k \in DOMAIN m :
            /\ m[k] = t
            /\ \A k2 \in DOMAIN m : m[k2] = t => k2 <= k]

\* get_scroll_from_block: the block's top less a third of the viewport,
\* never negative
get_scroll_from_block(top) == IF top > Third THEN top - Third ELSE 0

\* QScrollBar.setValue keeps the value inside the range of the scrollbar,
\* which is empty while the viewer shows no page
Clamped(v, p) == IF page_images[v] THEN Min(p, MaxPos) ELSE 0

\* the valueChanged signal of viewer v: raised only when the value changes,
\* it calls sync_scroll(v, other, value) before setValue returns
ValueChanged(v, p) ==
    IF p # scroll[v]
    THEN << [source |-> v, value |-> p, at |-> "entry"] >>
    ELSE <<>>

\* the first block whose top is at or below the scroll value, 0 when none
FirstBlockFrom(blocks, value) ==
    IF \E n \in 1..Len(blocks) : blocks[n] >= value
    THEN CHOOSE n \in 1..Len(blocks) :
            /\ blocks[n] >= value
            /\ \A m \in 1..(n - 1) : blocks[m] < value
    ELSE 0

\* the scroll value sync_scroll computes for the target, None when the
\* source shows no block at the value or the block has no partner
TargetScroll(v, value) ==
    LET sync_map == IF v = "A" THEN comparison_results[1].sync_map
                    ELSE InvertMap(comparison_results[1].sync_map)
        block_idx == FirstBlockFrom(BlocksOf(v), value)
    IN  IF block_idx = 0 \/ block_idx \notin DOMAIN sync_map THEN None
        ELSE get_scroll_from_block(BlocksOf(Other(v))[sync_map[block_idx]])

\* navigate_diff (lines 480-503) with the differences ds: steps the current
\* index and scrolls the viewer of that difference to its block
NavigateTo(ds, blocks, cur, direction) ==
    LET shown == (cur + direction) % Len(ds)
        v     == ds[shown + 1][1]
        p     == Clamped(v, get_scroll_from_block(blocks[v][ds[shown + 1][2]]))
    IN  /\ current_diff_index' = shown
        /\ scroll' = [scroll EXCEPT ![v] = p]
        /\ stack' = ValueChanged(v, p)

\* load_file (lines 372-395): the dialog returns a path and load_pdf shows
\* its pages, or load_pdf fails and leaves the viewer empty; the scrollbar
\* falls back to 0 when the old pages are cleared
LoadFile(v, ok) ==
    /\ stack = <<>>
    /\ events < MaxEvents
    /\ events' = events + 1
    /\ page_images' = [page_images EXCEPT ![v] = ok]
    /\ pdf_path_a' = IF ok /\ v = "A" THEN TRUE ELSE pdf_path_a
    /\ pdf_path_b' = IF ok /\ v = "B" THEN TRUE ELSE pdf_path_b
    /\ scroll' = [scroll EXCEPT ![v] = 0]
    /\ stack' = ValueChanged(v, 0)
    /\ moves' = 0
    /\ origin' = <<>>
    /\ UNCHANGED <<comparison_results, btn_compare, btn_nav,
                   current_diff_index, running, pending, is_syncing>>
    /\ UNCHANGED notGui

\* start_comparison that leaves btn_compare enabled
StartComparison_KeepsButton ==
    /\ stack = <<>>
    /\ events < MaxEvents
    /\ btn_compare
    /\ events' = events + 1
    /\ IF ~pdf_path_a \/ ~pdf_path_b
       THEN UNCHANGED <<btn_nav, running>>
       ELSE /\ btn_nav' = FALSE
            /\ running' = running + 1
    /\ moves' = 0
    /\ origin' = <<>>
    /\ UNCHANGED <<pdf_path_a, pdf_path_b, page_images, comparison_results,
                   btn_compare, current_diff_index, pending, is_syncing,
                   scroll, stack>>
    /\ UNCHANGED notGui

\* start_comparison (lines 397-416), reached by a click on the enabled
\* btn_compare: warns and returns while a file is missing, else disables
\* the buttons and starts a ComparisonWorker
StartComparison ==
    /\ stack = <<>>
    /\ events < MaxEvents
    /\ btn_compare
    /\ events' = events + 1
    /\ IF ~pdf_path_a \/ ~pdf_path_b
       THEN UNCHANGED <<btn_compare, btn_nav, running>>
       ELSE /\ btn_compare' = FALSE
            /\ btn_nav' = FALSE
            /\ running' = running + 1
    /\ moves' = 0
    /\ origin' = <<>>
    /\ UNCHANGED <<pdf_path_a, pdf_path_b, page_images, comparison_results,
                   current_diff_index, pending, is_syncing, scroll, stack>>
    /\ UNCHANGED notGui

\* ComparisonWorker.run (lines 32-66): the try block runs to its end and
\* emits finished with the packaged output
WorkerFinished(output) ==
    /\ running > 0
    /\ running' = running - 1
    /\ pending' = Append(pending, [sig |-> "finished", output |-> <<output>>])
    /\ UNCHANGED <<pdf_path_a, pdf_path_b, page_images, comparison_results,
                   btn_compare, btn_nav, current_diff_index, is_syncing,
                   scroll, stack, moves, origin, events>>
    /\ UNCHANGED notGui

\* ComparisonWorker.run (lines 68-69): a step of the try block raises and
\* the handler emits error instead
WorkerError ==
    /\ running > 0
    /\ running' = running - 1
    /\ pending' = Append(pending, [sig |-> "error", output |-> <<>>])
    /\ UNCHANGED <<pdf_path_a, pdf_path_b, page_images, comparison_results,
                   btn_compare, btn_nav, current_diff_index, is_syncing,
                   scroll, stack, moves, origin, events>>
    /\ UNCHANGED notGui

\* comparison_finished (lines 418-471), run by the GUI thread for a queued
\* finished signal: stores the results, enables btn_compare and, when there
\* are differences, the navigation buttons, and shows the first difference
comparison_finished ==
    /\ stack = <<>>
    /\ pending # <<>>
    /\ pending[1].sig = "finished"
    /\ pending' = Tail(pending)
    /\ comparison_results' = pending[1].output
    /\ btn_compare' = TRUE
    /\ moves' = 0
    /\ origin' = <<>>
    /\ LET output == pending[1].output[1]
       IN  IF output.diffs # <<>>
           THEN /\ btn_nav' = TRUE
                /\ NavigateTo(output.diffs,
                              [v \in Viewers |-> IF v = "A" THEN output.blocks_a
                                                 ELSE output.blocks_b], -1, 1)
           ELSE UNCHANGED <<btn_nav, current_diff_index, scroll, stack>>
    /\ UNCHANGED <<pdf_path_a, pdf_path_b, page_images, running, is_syncing,
                   events>>
    /\ UNCHANGED notGui

\* comparison_error (lines 473-478), run by the GUI thread for a queued
\* error signal
comparison_error ==
    /\ stack = <<>>
    /\ pending # <<>>
    /\ pending[1].sig = "error"
    /\ pending' = Tail(pending)
    /\ btn_compare' = TRUE
    /\ moves' = 0
    /\ origin' = <<>>
    /\ UNCHANGED <<pdf_path_a, pdf_path_b, page_images, comparison_results,
                   btn_nav, current_diff_index, running, is_syncing, scroll,
                   stack, events>>
    /\ UNCHANGED notGui

\* navigate_diff (lines 480-503), reached by a click on an enabled
\* btn_prev_diff (-1) or btn_next_diff (1)
navigate_diff(direction) ==
    /\ stack = <<>>
    /\ events < MaxEvents
    /\ btn_nav
    /\ events' = events + 1
    /\ moves' = 0
    /\ origin' = <<>>
    /\ IF diff_indices = <<>>
       THEN UNCHANGED <<current_diff_index, scroll, stack>>
       ELSE NavigateTo(diff_indices, [v \in Viewers |-> BlocksOf(v)],
                       current_diff_index, direction)
    /\ UNCHANGED <<pdf_path_a, pdf_path_b, page_images, comparison_results,
                   btn_compare, btn_nav, running, pending, is_syncing>>
    /\ UNCHANGED notGui

\* the user drags the scrollbar of viewer v to p: valueChanged calls
\* sync_scroll(v, other, p) (lines 290-295)
UserScroll(v, p) ==
    /\ stack = <<>>
    /\ events < MaxEvents
    /\ page_images[v]
    /\ p # scroll[v]
    /\ events' = events + 1
    /\ scroll' = [scroll EXCEPT ![v] = p]
    /\ stack' = ValueChanged(v, p)
    /\ moves' = 0
    /\ origin' = <<v, p>>
    /\ UNCHANGED <<pdf_path_a, pdf_path_b, page_images, comparison_results,
                   btn_compare, btn_nav, current_diff_index, running, pending,
                   is_syncing>>
    /\ UNCHANGED notGui

\* the innermost sync_scroll call
Top == stack[Len(stack)]

\* the call stack after the innermost call returns
Returned == SubSeq(stack, 1, Len(stack) - 1)

\* sync_scroll entered without the test of is_syncing
SyncEnter_IgnoresFlag ==
    /\ stack # <<>>
    /\ Top.at = "entry"
    /\ IF comparison_results = <<>>
       THEN /\ stack' = Returned
            /\ UNCHANGED is_syncing
       ELSE /\ is_syncing' = TRUE
            /\ stack' = [stack EXCEPT ![Len(stack)].at = "locate"]
    /\ UNCHANGED <<pdf_path_a, pdf_path_b, page_images, comparison_results,
                   btn_compare, btn_nav, current_diff_index, running, pending,
                   scroll, moves, origin, events>>
    /\ UNCHANGED notGui

\* sync_scroll, lines 512-515: returns at once while a call is syncing or
\* before any comparison, else raises the flag
SyncEnter ==
    /\ stack # <<>>
    /\ Top.at = "entry"
    /\ IF is_syncing \/ comparison_results = <<>>
       THEN /\ stack' = Returned
            /\ UNCHANGED is_syncing
       ELSE /\ is_syncing' = TRUE
            /\ stack' = [stack EXCEPT ![Len(stack)].at = "locate"]
    /\ UNCHANGED <<pdf_path_a, pdf_path_b, page_images, comparison_results,
                   btn_compare, btn_nav, current_diff_index, running, pending,
                   scroll, moves, origin, events>>
    /\ UNCHANGED notGui

\* sync_scroll, lines 526-540: no page of the source holds the value, the
\* flag is lowered and the call returns
SyncNoPage ==
    /\ stack # <<>>
    /\ Top.at = "locate"
    /\ ~page_images[Top.source]
    /\ is_syncing' = FALSE
    /\ stack' = Returned
    /\ UNCHANGED <<pdf_path_a, pdf_path_b, page_images, comparison_results,
                   btn_compare, btn_nav, current_diff_index, running, pending,
                   scroll, moves, origin, events>>
    /\ UNCHANGED notGui

\* sync_scroll, lines 542-559 when no block is found or the block has no
\* partner: nothing is scrolled, the flag is lowered
SyncNoTarget ==
    /\ stack # <<>>
    /\ Top.at = "locate"
    /\ page_images[Top.source]
    /\ TargetScroll(Top.source, Top.value) = None
    /\ is_syncing' = FALSE
    /\ stack' = Returned
    /\ UNCHANGED <<pdf_path_a, pdf_path_b, page_images, comparison_results,
                   btn_compare, btn_nav, current_diff_index, running, pending,
                   scroll, moves, origin, events>>
    /\ UNCHANGED notGui

\* sync_scroll, lines 552-557: setValue on the target's scrollbar, whose
\* valueChanged calls sync_scroll again before setValue returns
SyncSetValue ==
    /\ stack # <<>>
    /\ Top.at = "locate"
    /\ page_images[Top.source]
    /\ TargetScroll(Top.source, Top.value) # None
    /\ LET target == Other(Top.source)
           p      == Clamped(target, TargetScroll(Top.source, Top.value))
       IN  /\ scroll' = [scroll EXCEPT ![target] = p]
           /\ stack' = [stack EXCEPT ![Len(stack)].at = "exit"]
                       \o ValueChanged(target, p)
           /\ moves' = IF p # scroll[target] THEN moves + 1 ELSE moves
    /\ UNCHANGED <<pdf_path_a, pdf_path_b, page_images, comparison_results,
                   btn_compare, btn_nav, current_diff_index, running, pending,
                   is_syncing, origin, events>>
    /\ UNCHANGED notGui

\* sync_scroll, line 559: the flag is lowered at the end of the call
SyncReturn ==
    /\ stack # <<>>
    /\ Top.at = "exit"
    /\ is_syncing' = FALSE
    /\ stack' = Returned
    /\ UNCHANGED <<pdf_path_a, pdf_path_b, page_images, comparison_results,
                   btn_compare, btn_nav, current_diff_index, running, pending,
                   scroll, moves, origin, events>>
    /\ UNCHANGED notGui

\* the steps of the worker thread
WorkerRun ==
    \/ \E output \in Outputs : WorkerFinished(output)
    \/ WorkerError

\* the steps the GUI thread takes without the user: queued signals and the
\* sync_scroll calls in progress
GuiThread ==
    \/ comparison_finished
    \/ comparison_error
    \/ SyncEnter
    \/ SyncNoPage
    \/ SyncNoTarget
    \/ SyncSetValue
    \/ SyncReturn

InitGui ==
    /\ GuiIdle
    /\ AlignIdle
    /\ BlocksIdle
    /\ NormIdle
    /\ PdIdle
    /\ CallersIdle
    /\ ViewerIdle
    /\ UnitsIdle

NextGui ==
    \/ \E v \in Viewers, ok \in BOOLEAN : LoadFile(v, ok)
    \/ StartComparison
    \/ \E output \in Outputs : WorkerFinished(output)
    \/ WorkerError
    \/ comparison_finished
    \/ comparison_error
    \/ \E direction \in {-1, 1} : navigate_diff(direction)
    \/ \E v \in Viewers, p \in Pos : UserScroll(v, p)
    \/ SyncEnter
    \/ SyncNoPage
    \/ SyncNoTarget
    \/ SyncSetValue
    \/ SyncReturn

SpecGui == InitGui /\ [][NextGui]_vars

\* run() ends and the event loop of the GUI thread delivers every queued
\* signal and finishes every call it has begun
SpecGuiFair == SpecGui /\ WF_vars(WorkerRun) /\ WF_vars(GuiThread)

-----------------------------------------------------------------------------
(* Properties of compare_with_resync *)

\* C1: comparing a word list with itself returns no difference, also for
\* the empty list.
C1_SelfCompareEmpty ==
    (pc = "done" /\ words_left = words_right) => differences = <<>>

\* a run on two equal lists of at least two words has returned
C1_Witness ==
    /\ pc = "done"
    /\ words_left = words_right
    /\ Len(words_left) >= 2
    /\ i = Len(words_left)

\* W with x inserted at the 0-based position p
InsertAt(W, p, x) == SubSeq(W, 1, p) \o <<x>> \o SubSeq(W, p + 1, Len(W))

\* x is one of W[p], ..., W[p + lookahead]
InWindow(W, p, x) ==
    \E k \in 0..lookahead : p + k < Len(W) /\ At(W, p + k) = x

\* x is the join of 2 to MergeLimit consecutive words of W starting at p
IsJoinAt(W, p, x) ==
    \E n \in 2..MergeLimit : p + n <= Len(W) /\ Join(Slice(W, p, p + n)) = x

\* C2 as stated: whenever words_right is words_left with one token inserted
\* at p, the result is exactly the one operation insert at right index p.
C2_Original ==
    pc = "done" =>
        \A p \in 0..Len(words_left), x \in AlignWords :
            words_right = InsertAt(words_left, p, x)
                => differences = << <<"insert", None, p>> >>

\* C2 amended: the same, for a token x that differs from the words
\* W[p..p+lookahead] and is not the join of 2..5 consecutive words of W
\* starting at p.
C2_SingleInsert ==
    pc = "done" =>
        \A p \in 0..Len(words_left), x \in AlignWords :
            /\ words_right = InsertAt(words_left, p, x)
            /\ ~InWindow(words_left, p, x)
            /\ ~IsJoinAt(words_left, p, x)
            => differences = << <<"insert", None, p>> >>

\* a run has returned on a token inserted before the end of a list of at
\* least two words (the insert-lookahead resynchronised)
C2_Witness ==
    /\ pc = "done"
    /\ Len(words_left) >= 2
    /\ \E p \in 0..(Len(words_left) - 1), x \in AlignWords :
          /\ words_right = InsertAt(words_left, p, x)
          /\ ~InWindow(words_left, p, x)
          /\ ~IsJoinAt(words_left, p, x)
          /\ differences = << <<"insert", None, p>> >>

-----------------------------------------------------------------------------
(* Properties of TextComparator.compare_blocks *)

sync_map == results.sync_map

\* the B indices that are values of sync_map
SyncValues == { sync_map[k] : k \in DOMAIN sync_map }

\* highlights of the given colour and bounding box on a page of one side
CountHighlights(h, block, color) ==
    IF block.page \in DOMAIN h
    THEN Cardinality({ n \in 1..Len(h[block.page]) :
                         /\ h[block.page][n].color = color
                         /\ h[block.page][n].bbox = block.bbox })
    ELSE 0

\* C3: the sync_map is injective at every point of the matching loop and
\* in the result: no B index is the value of two different A indices.
C3_SyncMapInjective ==
    \A a1 \in DOMAIN sync_map, a2 \in DOMAIN sync_map :
        sync_map[a1] = sync_map[a2] => a1 = a2

\* the call has returned after the second A block found its best match
\* already claimed by the first
C3_Witness ==
    /\ bpc = "done"
    /\ Len(blocks_a) = 2
    /\ DOMAIN sync_map = {0}
    /\ results.deleted = <<>>

\* C4: a block list compared with itself gives no modified, no deleted and
\* no added record and the identity sync_map.
C4_SelfCompareIdentity ==
    (bpc = "done" /\ blocks_a = blocks_b) =>
        /\ results.modified = <<>>
        /\ results.deleted = <<>>
        /\ results.added = <<>>
        /\ sync_map = [k \in 0..(Len(blocks_a) - 1) |-> k]

\* both blocks can be scored and the score reaches the threshold
Similar(a, b) ==
    /\ NormOf[a.text] # <<>>
    /\ NormOf[b.text] # <<>>
    /\ FracGe(Score(a, b), SIMILARITY_THRESHOLD)

\* the scenario of C5: A = [T1, T2, T3], B = [T1, T2', T4], T2' similar to T2
\* but not word-identical, T3 and T4 similar to no block of the other side
Scenario ==
    /\ Len(blocks_a) = 3
    /\ Len(blocks_b) = 3
    /\ blocks_a[1] = blocks_b[1]
    /\ Similar(blocks_a[2], blocks_b[2])
    /\ WordsOf[blocks_a[2].text] # WordsOf[blocks_b[2].text]
    /\ \A n \in 1..3 : ~Similar(blocks_a[3], blocks_b[n])
    /\ \A n \in 1..3 : ~Similar(blocks_a[n], blocks_b[3])

\* sync_map {0:0, 1:1}, one modified record (1, 1), one added record (2)
ScenarioMatches ==
    /\ sync_map = [k \in {0, 1} |-> k]
    /\ Len(results.modified) = 1
    /\ results.modified[1].index_a = 1
    /\ results.modified[1].index_b = 1
    /\ Len(results.added) = 1
    /\ results.added[1].index_b = 2

ScenarioUnrelated ==
    /\ NormOf[blocks_a[1].text] # <<>>
    /\ FracGt(Score(blocks_a[2], blocks_b[2]), Score(blocks_a[2], blocks_b[1]))

\* T3 has exactly one deleted record and T4 exactly one added record
ScenarioLeftovers ==
    /\ Cardinality({ n \in 1..Len(results.deleted) : results.deleted[n].index_a = 2 }) = 1
    /\ Cardinality({ n \in 1..Len(results.added) : results.added[n].index_b = 2 }) = 1

C6_Original ==
    \A k \in DOMAIN sync_map :
        FracGe(RatioOf[<<At(blocks_a, k).text, At(blocks_b, sync_map[k]).text>>],
               SIMILARITY_THRESHOLD)

\* C6 amended: every sync_map entry i -> j has a ratio of at least 0.6 when
\* the section types of the two blocks differ and of at least 0.5 when they
\* are equal (the ratio plus the bonus is at least SIMILARITY_THRESHOLD).
C6_RatioWithBonus ==
    \A k \in DOMAIN sync_map :
        LET a == At(blocks_a, k)
            b == At(blocks_b, sync_map[k])
        IN  FracGe(RatioOf[<<a.text, b.text>>],
                   IF a.section_type = b.section_type THEN <<5, 10>> ELSE <<6, 10>>)

\* an entry that reaches the threshold only with the bonus
C6_Witness ==
    /\ bpc = "done"
    /\ \E k \in DOMAIN sync_map :
          /\ ~FracGe(RatioOf[<<At(blocks_a, k).text, At(blocks_b, sync_map[k]).text>>],
                     SIMILARITY_THRESHOLD)
          /\ At(blocks_a, k).section_type = At(blocks_b, sync_map[k]).section_type

\* C7: after compare_blocks every A index is either a key of sync_map or
\* the index_a of exactly one deleted record with one red highlight on its
\* page, never both and never neither.
C7_PartitionA ==
    bpc = "done" =>
        \A k \in 0..(Len(blocks_a) - 1) :
            LET n_deleted == Cardinality({ n \in 1..Len(results.deleted) :
                                             results.deleted[n].index_a = k })
                n_red == CountHighlights(results.diff_highlights_a, At(blocks_a, k), "red")
            IN  \/ k \in DOMAIN sync_map /\ n_deleted = 0 /\ n_red = 0
                \/ k \notin DOMAIN sync_map /\ n_deleted = 1 /\ n_red = 1

\* C8: after compare_blocks every B index is either a value of sync_map or
\* the index_b of exactly one added record with one green highlight on its
\* page, never both and never neither.
C8_PartitionB ==
    bpc = "done" =>
        \A k \in 0..(Len(blocks_b) - 1) :
            LET n_added == Cardinality({ n \in 1..Len(results.added) :
                                           results.added[n].index_b = k })
                n_green == CountHighlights(results.diff_highlights_b, At(blocks_b, k), "green")
            IN  \/ k \in SyncValues /\ n_added = 0 /\ n_green = 0
                \/ k \notin SyncValues /\ n_added = 1 /\ n_green = 1

\* the call has returned with one B block matched and another one added
C8_Witness ==
    /\ bpc = "done"
    /\ Len(blocks_b) = 2
    /\ Cardinality(SyncValues) = 1
    /\ Len(results.added) = 1

-----------------------------------------------------------------------------
(* Properties of the normalizer and of the word pipeline *)

\* C9: normalize_word is idempotent on every token that holds no comma.
C9_Idempotent ==
    (npc = "twice" /\ ~Contains(<<",">>, token)) => renormalized = normalized

\* C10: the raw tokens "1,000 man won" and "10000000" pass the pipeline to
\* equal normalized strings, so the selections [amount, 1,000 man won] and
\* [amount, 10000000] are compared without any difference.
C10_UnitExpandedEqual ==
    ( /\ pc = "done"
      /\ raw_left = <<Tok_amount, Tok_1000_man_won>>
      /\ raw_right = <<Tok_amount, Tok_10000000>> )
        => /\ words_left = words_right
           /\ differences = <<>>

-----------------------------------------------------------------------------
(* Properties of PDdiff.perform_comparison *)

\* the step of perform_comparison that records a match for A index pd_i
PdMatchStep == ppc = "match" /\ pd_i' = pd_i + 1 /\ pd_i \in DOMAIN pd_sync_map'

\* C11: for a matched pair of blocks with different texts the diff_type is
\* 'placeholder' exactly when the raw text of block A matches one of the
\* placeholder patterns, and then the step adds no highlight on either side;
\* "insurance term: xx years" against "insurance term: 30 years" is such a
\* pair.
C11_PlaceholderSuppressed ==
    [][ PdMatchStep =>
          LET a == At(flat_blocks_a, pd_i)
              b == At(flat_blocks_b, pd_sync_map'[pd_i])
          IN  a.text # b.text =>
                /\ diff_types'[pd_i] = "placeholder" <=> HasPlaceholder(a.text)
                /\ diff_types'[pd_i] = "placeholder" =>
                       (diff_data_a' = diff_data_a /\ diff_data_b' = diff_data_b)
                /\ (a.text = Pd_term_xx /\ b.text = Pd_term_30) =>
                       diff_types'[pd_i] = "placeholder" ]_vars

\* the comparison of the one block "insurance term: xx years" with the one
\* block "insurance term: 30 years" has returned: matched, no highlight
C11_Witness ==
    /\ ppc = "done"
    /\ Len(flat_blocks_a) = 1
    /\ Len(flat_blocks_b) = 1
    /\ flat_blocks_a[1].text = Pd_term_xx
    /\ flat_blocks_b[1].text = Pd_term_30
    /\ pd_sync_map = [k \in {0} |-> 0]
    /\ diff_types[0] = "placeholder"
    /\ diff_data_a = EmptyDict
    /\ diff_data_b = EmptyDict

-----------------------------------------------------------------------------
(* Properties of repeated calls *)

-----------------------------------------------------------------------------
(* Properties of the steps of compare_with_resync *)

\* the number of words from position p of W that join to x (2..MergeLimit)
JoinLengths(W, p, x) ==
    { n \in 2..MergeLimit : p + n <= Len(W) /\ Join(Slice(W, p, p + n)) = x }

\* the operations a step appends all lie at or after the two pointers
AppendsAhead ==
    /\ Len(differences') >= Len(differences)
    /\ SubSeq(differences', 1, Len(differences)) = differences
    /\ \A n \in (Len(differences) + 1)..Len(differences') :
          /\ differences'[n][2] = None \/ differences'[n][2] >= i
          /\ differences'[n][3] = None \/ differences'[n][3] >= j
    /\ i' >= i
    /\ j' >= j

\* C13: at a mismatch where consecutive words of one side join to the word
\* of the other side, the step moves both pointers past the whole group and
\* appends no operation; no later step appends one for a word behind the
\* pointers.
C13_MergeEmitsNothing ==
    [][ /\ AppendsAhead
        /\ (Mismatch /\ JoinLengths(words_left, i, At(words_right, j)) # {}) =>
              /\ i' = i + SetMin(JoinLengths(words_left, i, At(words_right, j)))
              /\ j' = j + 1
              /\ differences' = differences
        /\ (Mismatch /\ JoinLengths(words_right, j, At(words_left, i)) # {}) =>
              /\ i' = i + 1
              /\ j' = j + SetMin(JoinLengths(words_right, j, At(words_left, i)))
              /\ differences' = differences ]_vars

\* the lists [a, b] and [ab] have been compared: one merge, no operation
C13_Witness ==
    /\ pc = "done"
    /\ words_left = << <<"a">>, <<"b">> >>
    /\ words_right = << <<"a", "b">> >>
    /\ i = 2
    /\ j = 1
    /\ differences = <<>>

-----------------------------------------------------------------------------
(* Properties of the records and highlights of compare_blocks *)

\* number of highlights of the given colour on all pages of one side (the
\* count of test_comparison.py lines 124-134)
TotalHighlights(h, color) ==
    Cardinality({ e \in UNION { {p} \X (1..Len(h[p])) : p \in DOMAIN h } :
                    h[e[1]][e[2]].color = color })

\* the index fields a record carries
IndexFields(r) == DOMAIN r \cap {"index_a", "index_b"}

\* C14: a modified record carries index_a and index_b and has one yellow
\* highlight on each side, a deleted record carries only index_a and has one
\* red highlight on side A, an added record carries only index_b and has one
\* green highlight on side B; side A holds |modified| yellow, |deleted| red
\* and no green highlights, side B |modified| yellow, |added| green, no red.
C14_RecordsAndColours ==
    LET ha == results.diff_highlights_a
        hb == results.diff_highlights_b
    IN  /\ \A n \in 1..Len(results.modified) :
              LET r == results.modified[n]
              IN  /\ IndexFields(r) = {"index_a", "index_b"}
                  /\ CountHighlights(ha, r.block_a, "yellow") = 1
                  /\ CountHighlights(hb, r.block_b, "yellow") = 1
        /\ \A n \in 1..Len(results.deleted) :
              LET r == results.deleted[n]
              IN  /\ IndexFields(r) = {"index_a"}
                  /\ CountHighlights(ha, r.block_a, "red") = 1
        /\ \A n \in 1..Len(results.added) :
              LET r == results.added[n]
              IN  /\ IndexFields(r) = {"index_b"}
                  /\ CountHighlights(hb, r.block_b, "green") = 1
        /\ TotalHighlights(ha, "yellow") = Len(results.modified)
        /\ TotalHighlights(ha, "red") = Len(results.deleted)
        /\ TotalHighlights(ha, "green") = 0
        /\ TotalHighlights(hb, "yellow") = Len(results.modified)
        /\ TotalHighlights(hb, "green") = Len(results.added)
        /\ TotalHighlights(hb, "red") = 0

\* a result with a modified, a deleted and an added record
C14_Witness ==
    /\ bpc = "done"
    /\ Len(results.modified) = 1
    /\ Len(results.deleted) = 1
    /\ Len(results.added) = 1

-----------------------------------------------------------------------------
(* Properties of both block matchers *)

\* C15: in both block matchers a block whose normalized text is empty is
\* never matched: no A block with an empty normalized text is a key of the
\* sync_map and no B block with an empty normalized text is one of its values.
C15_EmptyNeverMatched ==
    /\ \A k \in DOMAIN sync_map :
          /\ NormOf[At(blocks_a, k).text] # <<>>
          /\ NormOf[At(blocks_b, sync_map[k]).text] # <<>>
    /\ \A k \in DOMAIN pd_sync_map :
          /\ PdNormOf[At(flat_blocks_a, k).text] # <<>>
          /\ PdNormOf[At(flat_blocks_b, pd_sync_map[k]).text] # <<>>

-----------------------------------------------------------------------------
(* Properties of the PDFViewer of pdf_text_compare_final_v2 *)

\* every entry of h is still in g, at its place
KeepsHighlights(h, g) ==
    \A p \in DOMAIN h :
        /\ p \in DOMAIN g
        /\ Len(g[p]) >= Len(h[p])
        /\ SubSeq(g[p], 1, Len(h[p])) = h[p]

\* C16: clear_all_selections, zoom_in, zoom_out, reload_pages and
\* on_selection_complete leave word_highlights unchanged,
\* highlight_word_differences only appends to it, and an entry is removed
\* only by clear_highlights.
C16_HighlightsPersist ==
    [][ /\ last_op' \in {"clear_all_selections", "zoom_in", "zoom_out",
                         "reload_pages", "on_selection_complete"}
              => word_highlights' = word_highlights
        /\ last_op' = "highlight_word_differences"
              => KeepsHighlights(word_highlights, word_highlights')
        /\ ~KeepsHighlights(word_highlights, word_highlights')
              => last_op' = "clear_highlights" ]_vars

\* highlights on two pages are still there after the selections were cleared
C16_Witness ==
    /\ last_op = "clear_all_selections"
    /\ DOMAIN word_highlights = {0, 1}
    /\ label_selection = {}

-----------------------------------------------------------------------------
(* Properties of the matching in compare_blocks and perform_comparison *)

\* the B blocks no earlier A block has claimed, empty ones left out
UnclaimedCandidates ==
    { k \in 0..(Len(blocks_b) - 1) :
        k \notin matched_b_indices /\ NormOf[At(blocks_b, k).text] # <<>> }

\* C17: when A block i is processed and some B block not yet claimed scores
\* at or above the threshold against it, i is matched to the highest-scoring
\* B block among those not yet claimed.
C17_BestUnclaimedTaken ==
    [][ ( /\ InMatchLoop
          /\ idx' = idx + 1
          /\ NormOf[block_a.text] # <<>>
          /\ \E k \in UnclaimedCandidates :
                FracGe(Score(block_a, At(blocks_b, k)), SIMILARITY_THRESHOLD) )
        => /\ idx \in DOMAIN results'.sync_map
           /\ results'.sync_map[idx] \in UnclaimedCandidates
           /\ \A k \in UnclaimedCandidates :
                 FracGe(Score(block_a, At(blocks_b, results'.sync_map[idx])),
                        Score(block_a, At(blocks_b, k))) ]_vars

\* C18: the sync_map of PDdiff.perform_comparison is injective: a B block
\* index is claimed by at most one A block index.
C18_SyncMapInjective ==
    \A a1, a2 \in DOMAIN pd_sync_map :
        pd_sync_map[a1] = pd_sync_map[a2] => a1 = a2

\* the B blocks find_best_match scores against A block a: the non-empty ones
ScoredIn(a) ==
    { k \in 0..(Len(blocks_b) - 1) : NormOf[At(blocks_b, k).text] # <<>> }

\* the B blocks that attain the maximum score against A block a
TopScored(a) ==
    { k \in ScoredIn(a) :
        \A n \in ScoredIn(a) :
            FracGe(Score(At(blocks_a, a), At(blocks_b, k)),
                   Score(At(blocks_a, a), At(blocks_b, n))) }

\* C19: when several B blocks attain the same maximum score against the
\* target block, find_best_match returns the one with the smallest index:
\* every match recorded by compare_blocks is the first of the top-scored
\* B blocks.
C19_TieFirstInB ==
    \A a \in DOMAIN results.sync_map :
        /\ results.sync_map[a] \in TopScored(a)
        /\ \A k \in TopScored(a) : results.sync_map[a] <= k

\* two B blocks tie at the top against A block 0, and the first was taken
C19_Witness ==
    /\ bpc = "done"
    /\ 0 \in DOMAIN results.sync_map
    /\ TopScored(0) = {0, 1}
    /\ results.sync_map[0] = 0

-----------------------------------------------------------------------------
(* Order of the resynchronisation steps of compare_with_resync *)

\* the k with words_left[i+k] == words_right[j], 1 <= k <= lookahead
LeftAhead ==
    { k \in 1..lookahead :
        i + k < Len(words_left) /\ At(words_left, i + k) = At(words_right, j) }

\* the k with words_left[i] == words_right[j+k], 1 <= k <= lookahead
RightAhead ==
    { k \in 1..lookahead :
        j + k < Len(words_right) /\ At(words_left, i) = At(words_right, j + k) }

\* some later left word equals some later right word, both within lookahead
BothAhead ==
    \E k1, k2 \in 1..lookahead :
        /\ i + k1 < Len(words_left)
        /\ j + k2 < Len(words_right)
        /\ At(words_left, i + k1) = At(words_right, j + k2)

\* a step of the loop at a mismatch the merge-check does not resolve
UnmergedMismatchStep ==
    /\ Mismatch
    /\ ~MergedLeft /\ ~MergedRight
    /\ <<i, j>>' # <<i, j>>

\* C20: at a mismatch the merge-check does not resolve the steps are tried in
\* the order delete-lookahead, insert-lookahead, joint lookahead, replace.  If
\* words_left[i+k] == words_right[j] for some k within the lookahead, the
\* smallest such k is taken, delete is emitted for the left indices
\* i..i+k-1 and only i advances, whatever the insert-lookahead or the joint
\* lookahead would have found.
C20_DeleteLookaheadFirst ==
    [][ UnmergedMismatchStep =>
          /\ LeftAhead # {} =>
                /\ differences' = differences \o Deletes(i, i + SetMin(LeftAhead))
                /\ i' = i + SetMin(LeftAhead)
                /\ j' = j
          /\ (LeftAhead = {} /\ RightAhead # {}) =>
                /\ differences' = differences \o Inserts(j, j + SetMin(RightAhead))
                /\ i' = i
                /\ j' = j + SetMin(RightAhead)
          /\ (LeftAhead = {} /\ RightAhead = {} /\ BothAhead) =>
                /\ i' > i /\ j' > j
                /\ differences' =
                      differences \o Deletes(i, i') \o Inserts(j, j')
                /\ At(words_left, i') = At(words_right, j')
          /\ (LeftAhead = {} /\ RightAhead = {} /\ ~BothAhead) =>
                /\ differences' = Append(differences, <<"replace", i, j>>)
                /\ i' = i + 1
                /\ j' = j + 1 ]_vars

\* 'b' is deleted up to after two left words although the left word 'ab' is
\* the very next word on the right
C20_Witness ==
    /\ pc = "loop"
    /\ words_left = << <<"a", "b">>, <<"a">>, <<"b">> >>
    /\ words_right = << <<"b">>, <<"a", "b">> >>
    /\ i = 2
    /\ j = 0
    /\ differences = << <<"delete", 0, None>>, <<"delete", 1, None>> >>

-----------------------------------------------------------------------------
(* The joint lookahead and the replace of compare_with_resync *)

\* the pairs (k1, k2) of the window with words_left[i+k1] == words_right[j+k2]
WindowPairs ==
    { p \in (1..lookahead) \X (1..lookahead) :
        /\ i + p[1] < Len(words_left)
        /\ j + p[2] < Len(words_right)
        /\ At(words_left, i + p[1]) = At(words_right, j + p[2]) }

\* C21: when neither the merge-check nor a one-sided lookahead
\* resynchronises, the joint lookahead takes a pair (k1, k2) of the window
\* with words_left[i+k1] == words_right[j+k2] and k1 + k2 minimal, emits
\* delete for i..i+k1-1 followed by insert for j..j+k2-1 and advances i by k1
\* and j by k2.
C21_JointMinimalPair ==
    [][ ( /\ UnmergedMismatchStep
          /\ LeftAhead = {}
          /\ RightAhead = {}
          /\ WindowPairs # {} )
        => /\ <<i' - i, j' - j>> \in WindowPairs
           /\ \A q \in WindowPairs : (i' - i) + (j' - j) <= q[1] + q[2]
           /\ differences' = differences \o Deletes(i, i') \o Inserts(j, j') ]_vars

\* of the pairs (1, 2) and (2, 2) the joint lookahead took (1, 2)
C21_Witness ==
    /\ pc = "loop"
    /\ words_left = << <<"a">>, <<"a", "b">>, <<"a", "b">> >>
    /\ words_right = << <<"b">>, <<"b">>, <<"a", "b">> >>
    /\ i = 1
    /\ j = 2
    /\ differences = << <<"delete", 0, None>>, <<"insert", None, 0>>,
                        <<"insert", None, 1>> >>

\* the step appends a replace operation
AppendsReplace ==
    \E n \in (Len(differences) + 1)..Len(differences') :
        differences'[n][1] = "replace"

\* the shorter of the two current words joins with the words after it to the
\* longer one
JoinsHere ==
    \/ /\ Len(At(words_left, i)) < Len(At(words_right, j))
       /\ JoinLengths(words_left, i, At(words_right, j)) # {}
    \/ /\ Len(At(words_right, j)) < Len(At(words_left, i))
       /\ JoinLengths(words_right, j, At(words_left, i)) # {}

\* C22: a replace is emitted only at a mismatch where no merge, no
\* delete-lookahead, no insert-lookahead and no joint lookahead succeeds
\* within the window; it is the single operation ('replace', i, j) and both
\* pointers then advance by exactly one.
C22_ReplaceLastResort ==
    [][ AppendsReplace =>
          /\ i < Len(words_left) /\ j < Len(words_right)
          /\ At(words_left, i) # At(words_right, j)
          /\ ~JoinsHere
          /\ LeftAhead = {}
          /\ RightAhead = {}
          /\ WindowPairs = {}
          /\ differences' = Append(differences, <<"replace", i, j>>)
          /\ i' = i + 1
          /\ j' = j + 1 ]_vars

\* 'a' against 'ab' with nothing to join and nothing in common ahead: one
\* replace, then the remaining right word is drained
C22_Witness ==
    /\ pc = "done"
    /\ words_left = << <<"a">> >>
    /\ words_right = << <<"a", "b">>, <<"b">> >>
    /\ i = 1
    /\ j = 2
    /\ differences = << <<"replace", 0, 0>>, <<"insert", None, 1>> >>

-----------------------------------------------------------------------------
(* Properties of normalize_korean_number *)

\* the magnitude units
UnitNames == { units[n].unit : n \in DOMAIN units }

\* the number of zeros of the multiplier of unit c
ZerosOfUnit(c) == units[CHOOSE n \in DOMAIN units : units[n].unit = c].zeros

\* position s starts a <digits><unit> group of text: a maximal run of digits
\* and commas with at least one digit, followed by a unit
StartsGroup(text, s) ==
    /\ text[s] \in NumChars
    /\ s = 1 \/ text[s - 1] \notin NumChars
    /\ RunEnd(text, s) < Len(text)
    /\ text[RunEnd(text, s) + 1] \in UnitNames
    /\ RemoveCommas(SubSeq(text, s, RunEnd(text, s))) # <<>>

GroupStarts(text) == { s \in 1..Len(text) : StartsGroup(text, s) }

\* every unit of text is preceded by its own digits
EveryUnitHasDigits(text) ==
    \A n \in 1..Len(text) :
        text[n] \in UnitNames =>
            \E s \in GroupStarts(text) : RunEnd(text, s) + 1 = n

\* no unit occurs twice in text
EachUnitOnce(text) ==
    \A n1, n2 \in 1..Len(text) :
        (text[n1] \in UnitNames /\ text[n1] = text[n2]) => n1 = n2

\* text from position s on with every group replaced by the product of its
\* own digits and its own multiplier
RECURSIVE EachGroupExpanded(_, _)
EachGroupExpanded(text, s) ==
    IF s > Len(text) THEN <<>>
    ELSE IF StartsGroup(text, s)
         THEN LET e == RunEnd(text, s)
              IN  TimesPowerOfTen(IntStr(RemoveCommas(SubSeq(text, s, e))),
                                  ZerosOfUnit(text[e + 1]))
                     \o EachGroupExpanded(text, e + 2)
         ELSE <<text[s]>> \o EachGroupExpanded(text, s + 1)

\* C23: a text holding several different magnitude units, each preceded by
\* its own digits, has every <digits><unit> group replaced by the product of its own
\* digits and its own multiplier, independently of the other groups.
C23_UnitsIndependent ==
    ( /\ upc \in {"units", "word"}
      /\ Cardinality(GroupStarts(unit_text)) >= 2
      /\ EveryUnitHasDigits(unit_text)
      /\ EachUnitOnce(unit_text) )
    => unit_result = RemoveCommas(EachGroupExpanded(unit_text, 1))

\* the leftmost match of ([0-9,]+)unit in text holds no digit
UnparsableMatch(text, unit) ==
    /\ MatchStarts(text, unit) # {}
    /\ LET s == SetMin(MatchStarts(text, unit))
       IN  \A n \in s..RunEnd(text, s) : text[n] = ","

\* sub occurs in text
Occurs(sub, text) ==
    \E s \in 0..(Len(text) - Len(sub)) : SubSeq(text, s + 1, s + Len(sub)) = sub

\* the <commas><unit> groups of text: a maximal run of commas up to a unit
CommaGroups(text) ==
    { SubSeq(text, s, RunEnd(text, s) + 1) :
        s \in { s \in 1..Len(text) :
                  /\ text[s] = ","
                  /\ s = 1 \/ text[s - 1] \notin NumChars
                  /\ RunEnd(text, s) < Len(text)
                  /\ text[RunEnd(text, s) + 1] \in UnitNames
                  /\ \A n \in s..RunEnd(text, s) : text[n] = "," } }

\* C24 as stated: a <digits><unit> group whose digits are only commas is left
\* unchanged in the text normalize_korean_number returns.
C24_Original ==
    upc \in {"units", "word"} =>
        \A g \in CommaGroups(unit_text) : Occurs(g, unit_result)

\* text holds no digit, so none of its groups can be parsed
NoDigit(text) == \A n \in 1..Len(text) : text[n] \notin Digits

\* C24: when the digits before a unit cannot be parsed as a number, the
\* conversion of that unit is skipped without raising and leaves the text
\* unchanged; the commas of the group are removed by the final replace, the
\* unit stays, and normalize_word returns the same for the token.
C24_UnparsableSkipped ==
    /\ [][ ( /\ upc = "loop"
             /\ unit_k < Len(units)
             /\ UnparsableMatch(unit_result, units[unit_k + 1].unit) )
           => /\ unit_result' = unit_result
              /\ unit_k' = unit_k + 1
              /\ upc' = "loop" ]_vars
    /\ []( (upc \in {"units", "word"} /\ NoDigit(unit_text))
              => unit_result = RemoveCommas(unit_text) )
    /\ []( (upc = "word" /\ NoDigit(unit_text) /\ CommaGroups(unit_text) # {})
              => word_result = unit_result )

\* ',man': the conversion is skipped, the comma removed, the unit kept
C24_Witness ==
    /\ upc = "word"
    /\ unit_text = <<",", "man">>
    /\ unit_result = <<"man">>
    /\ word_result = <<"man">>

-----------------------------------------------------------------------------
(* Matched pairs with identical raw text *)

\* compare_blocks matches A block idx in this step, to a B block of the same
\* raw text
MatchesIdentical ==
    /\ bpc = "match"
    /\ idx' = idx + 1
    /\ idx \in DOMAIN results'.sync_map
    /\ At(blocks_a, idx).text = At(blocks_b, results'.sync_map[idx]).text

\* perform_comparison matches A block pd_i in this step, to a B block of the
\* same raw text
PdMatchesIdentical ==
    /\ PdMatchStep
    /\ At(flat_blocks_a, pd_i).text = At(flat_blocks_b, pd_sync_map'[pd_i]).text

\* C25: a matched pair with identical raw text produces no record and no
\* highlight: compare_blocks adds no modified record for it, and
\* compare_text_blocks returns 'same' for it even when the text matches a
\* placeholder pattern.
C25_IdenticalNoRecord ==
    [][ /\ MatchesIdentical =>
              /\ results'.modified = results.modified
              /\ results'.deleted = results.deleted
              /\ results'.added = results.added
              /\ results'.diff_highlights_a = results.diff_highlights_a
              /\ results'.diff_highlights_b = results.diff_highlights_b
        /\ PdMatchesIdentical =>
              /\ diff_types'[pd_i] = "same"
              /\ diff_data_a' = diff_data_a
              /\ diff_data_b' = diff_data_b ]_vars

\* both matchers have matched a pair of equal texts, the one of
\* perform_comparison a placeholder text, and recorded nothing
C25_Witness ==
    /\ bpc = "done"
    /\ ppc = "done"
    /\ Len(blocks_a) = 1 /\ Len(blocks_b) = 1
    /\ results.sync_map = [k \in {0} |-> 0]
    /\ At(blocks_a, 0).text = At(blocks_b, 0).text
    /\ results.modified = <<>>
    /\ results.diff_highlights_a = EmptyDict
    /\ results.diff_highlights_b = EmptyDict
    /\ Len(flat_blocks_a) = 1 /\ Len(flat_blocks_b) = 1
    /\ At(flat_blocks_a, 0).text = Pd_term_xx
    /\ At(flat_blocks_b, 0).text = Pd_term_xx
    /\ HasPlaceholder(Pd_term_xx)
    /\ diff_types = [k \in {0} |-> "same"]
    /\ diff_data_a = EmptyDict
    /\ diff_data_b = EmptyDict

-----------------------------------------------------------------------------
(* The merge-check of compare_with_resync *)

\* a step of the loop at a mismatch
MismatchStep == Mismatch /\ <<i, j>>' # <<i, j>>

\* C26: the merge-check is attempted only when the two current words differ
\* in length, and succeeds exactly when n consecutive words of the shorter
\* word's side, from its pointer on, 2 <= n <= 5, join without separator to
\* the longer word; the smallest such n is used, n words are consumed on
\* that side and one word on the other, and nothing is recorded.
C26_MergeCheck ==
    [][ MismatchStep =>
          LET left_word == At(words_left, i)
              right_word == At(words_right, j)
          IN  /\ differences' = differences <=> JoinsHere
              /\ Len(left_word) = Len(right_word) => differences' # differences
              /\ (JoinsHere /\ Len(left_word) < Len(right_word)) =>
                    /\ i' = i + SetMin(JoinLengths(words_left, i, right_word))
                    /\ j' = j + 1
              /\ (JoinsHere /\ Len(right_word) < Len(left_word)) =>
                    /\ i' = i + 1
                    /\ j' = j + SetMin(JoinLengths(words_right, j, left_word)) ]_vars

\* five words 'a' joined to 'aaaaa': both lists consumed, nothing recorded
C26_Witness ==
    /\ pc = "done"
    /\ words_left = << <<"a">>, <<"a">>, <<"a">>, <<"a">>, <<"a">> >>
    /\ words_right = << <<"a", "a", "a", "a", "a">> >>
    /\ i = 5
    /\ j = 1
    /\ differences = <<>>

-----------------------------------------------------------------------------
(* The result of compare_with_resync as a whole *)

\* the left indices the operations flag (delete or replace)
FlaggedLeft ==
    { differences[n][2] : n \in { n \in DOMAIN differences :
                                    differences[n][1] \in {"delete", "replace"} } }

\* the right indices the operations flag (insert or replace)
FlaggedRight ==
    { differences[n][3] : n \in { n \in DOMAIN differences :
                                    differences[n][1] \in {"insert", "replace"} } }

\* the words of W whose 0-based index is not in flagged, joined in order
RECURSIVE JoinUnflagged(_, _, _)
JoinUnflagged(W, flagged, n) ==
    IF n >= Len(W) THEN <<>>
    ELSE (IF n \in flagged THEN <<>> ELSE At(W, n)) \o JoinUnflagged(W, flagged, n + 1)

\* C27: in every result of compare_with_resync the words left unflagged are
\* textually equal on both sides: the left words in no delete or replace,
\* joined in order without separator, give the same string as the right
\* words in no insert or replace.
C27_UnflaggedEqual ==
    pc = "done" =>
        JoinUnflagged(words_left, FlaggedLeft, 0)
            = JoinUnflagged(words_right, FlaggedRight, 0)

\* 'a' and 'b' joined to 'ab', the second 'b' deleted
C27_Witness ==
    /\ pc = "done"
    /\ words_left = << <<"a">>, <<"b">>, <<"b">> >>
    /\ words_right = << <<"a", "b">> >>
    /\ differences = << <<"delete", 2, None>> >>
    /\ JoinUnflagged(words_left, FlaggedLeft, 0) = <<"a", "b">>

\* the indices of column c of the operations, None left out, in order
RECURSIVE IndicesOf(_, _)
IndicesOf(ops_, c) ==
    IF ops_ = <<>> THEN <<>>
    ELSE (IF Head(ops_)[c] = None THEN <<>> ELSE <<Head(ops_)[c]>>)
            \o IndicesOf(Tail(ops_), c)

StrictlyIncreasing(s) == \A n \in 1..(Len(s) - 1) : s[n] < s[n + 1]

\* C28: compare_with_resync terminates with both lists fully consumed; every
\* iteration advances at least one pointer; the left indices of the output
\* are strictly increasing, hence each occurs at most once, and so are the
\* right indices; the words that remain on one side when the other is
\* exhausted are each emitted as delete (left) or insert (right).
C28_Terminates ==
    /\ <>(pc = "done" /\ i = Len(words_left) /\ j = Len(words_right))
    /\ [][ pc = "loop" =>
             /\ i' >= i /\ j' >= j
             /\ i' + j' > i + j \/ pc' = "done" ]_vars
    /\ [](/\ StrictlyIncreasing(IndicesOf(differences, 2))
          /\ StrictlyIncreasing(IndicesOf(differences, 3)))
    /\ [][ (pc = "loop" /\ i < Len(words_left) /\ j >= Len(words_right)) =>
             /\ differences' = Append(differences, <<"delete", i, None>>)
             /\ i' = i + 1 /\ j' = j ]_vars
    /\ [][ (pc = "loop" /\ i >= Len(words_left) /\ j < Len(words_right)) =>
             /\ differences' = Append(differences, <<"insert", None, j>>)
             /\ i' = i /\ j' = j + 1 ]_vars

\* the right list is exhausted after one match; the two left words that
\* remain are deleted one by one
C28_Witness ==
    /\ pc = "done"
    /\ words_left = << <<"a">>, <<"a", "a">>, <<"a">> >>
    /\ words_right = << <<"a">> >>
    /\ i = 3
    /\ j = 1
    /\ differences = << <<"delete", 1, None>>, <<"delete", 2, None>> >>

-----------------------------------------------------------------------------
(* Properties of insurance_compare_gui.MainWindow *)

\* C29: is_syncing is TRUE exactly while a sync_scroll call is past its
\* guard, so it is FALSE whenever no call is executing; the call raised by
\* the target's setValue is the only nested one and never gets past its
\* entry, so it moves nothing; one user scroll moves the other viewer at
\* most once and leaves the scrolled viewer where the user put it.
C29_SyncScrollGuarded ==
    /\ is_syncing <=> (stack # <<>> /\ stack[1].at \in {"locate", "exit"})
    /\ stack = <<>> => ~is_syncing
    /\ Len(stack) <= 2
    /\ \A k \in 2..Len(stack) :
          /\ stack[k].at = "entry"
          /\ stack[k].source = Other(stack[1].source)
          /\ stack[1].at = "exit"
    /\ moves <= 1
    /\ origin # <<>> => scroll[origin[1]] = origin[2]

\* a user scroll of one viewer has moved the other one once and every
\* sync_scroll call has returned
C29_Witness ==
    /\ origin # <<>>
    /\ moves = 1
    /\ stack = <<>>
    /\ ~is_syncing
    /\ comparison_results # <<>>
    /\ scroll[Other(origin[1])] # 0

\* the comparisons in flight: workers inside run() and signals of finished
\* workers that the GUI thread has not handled yet
InFlight == running + Len(pending)

\* C30: at most one comparison is in flight and btn_compare is disabled
\* while it is; a worker starts only in a step that finds btn_compare
\* enabled with nothing in flight and disables it; a worker that leaves
\* run() queues exactly one signal; btn_compare is enabled again only by
\* the handler that takes that signal off the queue; and a disabled
\* btn_compare is eventually enabled again.
C30_OneWorkerInFlight ==
    /\ [](InFlight <= 1)
    /\ [](InFlight = 1 <=> ~btn_compare)
    /\ [][running' > running =>
            /\ btn_compare /\ InFlight = 0
            /\ ~btn_compare' /\ running' = 1]_vars
    /\ [][running' < running =>
            /\ running' = running - 1
            /\ Len(pending') = Len(pending) + 1
            /\ pending'[Len(pending')].sig \in {"finished", "error"}]_vars
    /\ [][Len(pending') > Len(pending) => running' = running - 1]_vars
    /\ [][(~btn_compare /\ btn_compare') =>
            /\ pending # <<>>
            /\ pending' = Tail(pending)
            /\ running = 0]_vars
    /\ (~btn_compare) ~> btn_compare

\* a comparison was started, its worker finished and the handler of its
\* signal has enabled btn_compare again
C30_Witness ==
    /\ comparison_results # <<>>
    /\ btn_compare
    /\ InFlight = 0
    /\ stack = <<>>

====
